---- MODULE Spec2Model ----
(***************************************************************************)
(* EvenSteven back end: the ledger of group expenses and the cached        *)
(* balance that the signal handlers of groups/signals.py keep on every     *)
(* GroupMember row.                                                        *)
(*                                                                         *)
(* Money is a Decimal with two fraction digits; it is modelled as an       *)
(* integer number of cents (3000 is 30.00).  The operations are those of   *)
(* the ORM (objects.create, save, delete) together with the post_save and  *)
(* post_delete receivers they fire; the serializers and views call them.   *)
(***************************************************************************)
EXTENDS Integers, Sequences, FiniteSets, Bags, TLC

\* ------------------------------------------------------------------ bounds

\* Rows that may exist at once in the four event tables taken together.
MaxEvents == 2
\* Saves of an already existing event row (modifications) in one behaviour.
MaxEdits == 1

\* ------------------------------------------------------------- input sets

Users == {"A", "B", "C"}
Groups == {"g1", "g2"}
\* Payment.group and Settlement.group are nullable (on_delete=SET_NULL).
NoGroup == "null"
\* The groups the payments and settlements of the model are created in.
TransferGroups == {"g1", NoGroup}
\* Sender and receiver of a payment or settlement.
TransferPairs == {ft \in Users \X Users : ft[1] # ft[2]}

\* Amounts in cents: those a row is created with, and those a modification
\* may set.
ExpenseAmounts == {3000}
EditedExpenseAmounts == {3000, 6000}
EditedTransferAmounts == {1000, 2000}
SplitAmounts == {1000}
\* The (amount, percentage) a split is created with; the percentage is
\* optional, <<>> being None.
SplitInputs == {<<1000, <<>>>>, <<0, <<50>>>>, <<1000, <<50>>>>}
PaymentAmounts == {1000}
\* Settlement.save refuses an amount <= 0.
SettlementAmounts == {0, 1000}

\* --------------------------------------------------------------- the state

VARIABLES
    groups,       \* the Group rows, by their id
    members,      \* GroupMember rows, keyed by the unique pair (group, user)
    expenses,     \* Expense rows, each with its ExpenseSplit rows: a bag
    payments,     \* Payment rows: a bag (rows that differ only by id are alike)
    settlements,  \* Settlement rows: a bag
    edits,        \* the modifications of existing rows so far
    last,         \* the last operation performed and its arguments
    workers,      \* the requests in flight, each at a step of its handler
    requests      \* the membership requests answered so far

vars == <<groups, members, expenses, payments, settlements, edits, last, workers, requests>>

NoMember ==
    [present |-> FALSE, role |-> "member", status |-> "active", balance |-> 0, joined |-> 0]
NoSplit == [present |-> FALSE, amount |-> 0, created |-> 0]
NoSplits == [u \in Users |-> NoSplit]

\* GroupMember(role, status, balance) of a (group, user) pair.  joined stands
\* for joined_at (auto_now_add): the place of the row among the rows of its
\* group in the order of their creation, given when the row is inserted.
GroupMember(role, status, balance) ==
    [present |-> TRUE, role |-> role, status |-> status, balance |-> balance, joined |-> 0]

\* The order in which setUp creates the users and adds them to a group.
SetUpOrder == <<"A", "B", "C">>

\* The place of user u in SetUpOrder.
SetUpPlace(u) == CHOOSE i \in DOMAIN SetUpOrder : SetUpOrder[i] = u

\* The rows M inserted group by group in the order of setUp.
InSetUpOrder(M) ==
    [k \in DOMAIN M |->
        IF M[k].present
        THEN [M[k] EXCEPT !.joined =
                 Cardinality({u \in DOMAIN SetUpOrder :
                                 /\ M[<<k[1], SetUpOrder[u]>>].present
                                 /\ u <= SetUpPlace(k[2])})]
        ELSE M[k]]

\* ExpenseSplit(amount) of an (expense, user) pair: unique_together makes the
\* splits of an expense a partial function of the user.  created stands for
\* created_at (auto_now_add): the place of the split among the splits of its
\* expense in the order of their creation, given when the split is inserted.
ExpenseSplit(a) == [present |-> TRUE, amount |-> a, created |-> 0]

\* The splits ss of an expense inserted in the order of setUp's users.
SplitsInSetUpOrder(ss) ==
    [u \in DOMAIN ss |->
        IF ss[u].present
        THEN [ss[u] EXCEPT !.created =
                 Cardinality({i \in DOMAIN SetUpOrder :
                                 /\ ss[SetUpOrder[i]].present
                                 /\ i <= SetUpPlace(u)})]
        ELSE ss[u]]

\* Expense(group, paid_by, amount), with its related splits
Expense(g, p, a, ss) == [group |-> g, paid_by |-> p, amount |-> a, splits |-> ss]

\* Payment(from_user, to_user, group, amount)
Payment(f, t, g, a) == [from_user |-> f, to_user |-> t, group |-> g, amount |-> a]

\* Settlement(from_user, to_user, group, amount)
Settlement(f, t, g, a) == [from_user |-> f, to_user |-> t, group |-> g, amount |-> a]

\* ------------------------------------------------------------------ tables

\* INSERT of row r into table B, DELETE of one row r from it.
Insert(B, r) == B (+) SetToBag({r})
Delete(B, r) == B (-) SetToBag({r})

\* The users with a split on expense e.
SplitUsers(e) == {u \in Users : e.splits[u].present}

RECURSIVE SumRows(_, _, _)
\* Sum(f[row]) over the rows of the bag B that are copies of a row in K.
SumRows(K, B, f) ==
    IF K = {} THEN 0
    ELSE LET k == CHOOSE x \in K : TRUE
         IN CopiesIn(k, B) * f[k] + SumRows(K \ {k}, B, f)

\* Sum('amount') over the rows of the bag B that are copies of a row in K.
SumAmount(K, B) == SumRows(K, B, [k \in K |-> k.amount])

\* --------------------------------------------------------- balance manager

\* calculate_member_balance with the payments the user received added, not
\* subtracted.
CalcBalanceReceivedAdded(E, P, T, g, u) ==
    SumAmount({e \in BagToSet(E) : e.group = g /\ e.paid_by = u}, E)
    - SumRows({e \in BagToSet(E) : e.group = g /\ e.splits[u].present}, E,
              [e \in BagToSet(E) |-> e.splits[u].amount])
    + SumAmount({k \in BagToSet(P) : k.group = g /\ k.from_user = u}, P)
    + SumAmount({k \in BagToSet(P) : k.group = g /\ k.to_user = u}, P)
    + SumAmount({k \in BagToSet(T) : k.group = g /\ k.from_user = u}, T)
    - SumAmount({k \in BagToSet(T) : k.group = g /\ k.to_user = u}, T)

\* calculate_member_balance with the settlements of every group, not of the
\* group asked for.
CalcBalanceAnyGroup(E, P, T, g, u) ==
    SumAmount({e \in BagToSet(E) : e.group = g /\ e.paid_by = u}, E)
    - SumRows({e \in BagToSet(E) : e.group = g /\ e.splits[u].present}, E,
              [e \in BagToSet(E) |-> e.splits[u].amount])
    + SumAmount({k \in BagToSet(P) : k.group = g /\ k.from_user = u}, P)
    - SumAmount({k \in BagToSet(P) : k.group = g /\ k.to_user = u}, P)
    + SumAmount({k \in BagToSet(T) : k.from_user = u}, T)
    - SumAmount({k \in BagToSet(T) : k.to_user = u}, T)

\* calculate_member_balance(group, user) over the event tables E (expenses
\* with their splits), P (payments) and T (settlements).
CalcBalance(E, P, T, g, u) ==
    LET expenses_paid ==
            SumAmount({e \in BagToSet(E) : e.group = g /\ e.paid_by = u}, E)
        expense_splits ==
            SumRows({e \in BagToSet(E) : e.group = g /\ e.splits[u].present}, E,
                    [e \in BagToSet(E) |-> e.splits[u].amount])
        payments_made ==
            SumAmount({k \in BagToSet(P) : k.group = g /\ k.from_user = u}, P)
        payments_received ==
            SumAmount({k \in BagToSet(P) : k.group = g /\ k.to_user = u}, P)
        settlements_made ==
            SumAmount({k \in BagToSet(T) : k.group = g /\ k.from_user = u}, T)
        settlements_received ==
            SumAmount({k \in BagToSet(T) : k.group = g /\ k.to_user = u}, T)
    IN  expenses_paid - expense_splits + payments_made - payments_received
        + settlements_made - settlements_received

\* The aggregate queries of calculate_member_balance, in their order.
CalculateStatements ==
    <<"expenses_paid", "expense_splits", "payments_made", "payments_received",
      "settlements_made", "settlements_received">>

\* The same as a set: the places of a worker inside calculate_member_balance.
StatementsOfCalculate == {CalculateStatements[i] : i \in DOMAIN CalculateStatements}

\* What one aggregate query of calculate_member_balance(group, user) adds to
\* the balance, over the tables as they are when it runs.
BalanceTerm(E, P, T, g, u, statement) ==
    CASE statement = "expenses_paid" ->
            SumAmount({e \in BagToSet(E) : e.group = g /\ e.paid_by = u}, E)
      [] statement = "expense_splits" ->
            0 - SumRows({e \in BagToSet(E) : e.group = g /\ e.splits[u].present}, E,
                        [e \in BagToSet(E) |-> e.splits[u].amount])
      [] statement = "payments_made" ->
            SumAmount({k \in BagToSet(P) : k.group = g /\ k.from_user = u}, P)
      [] statement = "payments_received" ->
            0 - SumAmount({k \in BagToSet(P) : k.group = g /\ k.to_user = u}, P)
      [] statement = "settlements_made" ->
            SumAmount({k \in BagToSet(T) : k.group = g /\ k.from_user = u}, T)
      [] statement = "settlements_received" ->
            0 - SumAmount({k \in BagToSet(T) : k.group = g /\ k.to_user = u}, T)

calculate_member_balance(g, u) == CalcBalance(expenses, payments, settlements, g, u)

\* update_member_balance(group, user) on the member table M, the events being
\* E, P, T: a user with no GroupMember row in the group is skipped.
UpdateMemberBalance(M, E, P, T, g, u) ==
    IF g \in Groups /\ M[<<g, u>>].present
    THEN [M EXCEPT ![<<g, u>>].balance = CalcBalance(E, P, T, g, u)]
    ELSE M

RECURSIVE UpdateMemberBalances(_, _, _, _, _, _)
\* update_member_balance for every user of the sequence us, in order.
UpdateMemberBalances(M, E, P, T, g, us) ==
    IF us = <<>> THEN M
    ELSE UpdateMemberBalances(UpdateMemberBalance(M, E, P, T, g, Head(us)),
                              E, P, T, g, Tail(us))

RECURSIVE ByCreatedAt(_, _)
\* The users S of the splits of expense e as a queryset yields them:
\* Meta.ordering of ExpenseSplit is -created_at, the split created last comes
\* first.  The collector of expense.delete() sends post_delete in the same
\* order (it sorts the splits by pk and reverses).
ByCreatedAt(e, S) ==
    IF S = {} THEN <<>>
    ELSE LET x == CHOOSE y \in S : \A z \in S : e.splits[z].created <= e.splits[y].created
         IN <<x>> \o ByCreatedAt(e, S \ {x})

RECURSIVE ByJoinedAt(_, _, _)
\* The users S of GroupMember rows of group g as a queryset yields them:
\* Meta.ordering is -joined_at, the row created last comes first.
ByJoinedAt(M, g, S) ==
    IF S = {} THEN <<>>
    ELSE LET x == CHOOSE y \in S : \A z \in S : M[<<g, z>>].joined <= M[<<g, y>>].joined
         IN <<x>> \o ByJoinedAt(M, g, S \ {x})

\* The members of group g whose status is active.
ActiveMembers(M, g) == {u \in Users : M[<<g, u>>].present /\ M[<<g, u>>].status = "active"}

\* update_all_group_balances that updates no member.
UpdateAllGroupBalancesOfNone(M, E, P, T, g) == M

\* update_all_group_balances(group)
UpdateAllGroupBalances(M, E, P, T, g) ==
    UpdateMemberBalances(M, E, P, T, g, ByJoinedAt(M, g, ActiveMembers(M, g)))

\* process_expense_balance_update(expense): the payer, then every user with a
\* split on the expense, in the expense's group.
ProcessExpenseBalanceUpdate(M, E, P, T, e) ==
    UpdateMemberBalances(M, E, P, T, e.group, <<e.paid_by>> \o ByCreatedAt(e, SplitUsers(e)))

\* process_payment_balance_update(payment) and
\* process_settlement_balance_update(settlement): both users, when the row has
\* a group.
ProcessTransferBalanceUpdate(M, E, P, T, k) ==
    IF k.group # NoGroup
    THEN UpdateMemberBalances(M, E, P, T, k.group, <<k.from_user, k.to_user>>)
    ELSE M

\* update_balances_on_split_change and update_balances_on_split_delete: the
\* split's user, then the payer of its expense e.
OnSplitSignal(M, E, P, T, e, u) ==
    UpdateMemberBalances(M, E, P, T, e.group, <<u, e.paid_by>>)

\* What last keeps of an operation: its name, its group and its first user (the
\* payer, the split's user, the sender); for a deleted expense also the users
\* whose splits went with it.
Did(op, g, u, os) == [op |-> op, group |-> g, user |-> u, others |-> os, value |-> 0]

\* The same for a read, with the value it returned.
Returned(op, g, u, v) == [op |-> op, group |-> g, user |-> u, others |-> {}, value |-> v]

\* The request workers.
Workers == {"w1", "w2"}

\* A worker in the handler of the event row it has inserted: todo are the
\* users whose balance it has still to update, member and calculated the
\* balance it has read and the one it has calculated, written its UPDATEs so
\* far.
Handling(kind, row, todo, pc, member, calculated, written) ==
    [pc |-> pc, kind |-> kind, row |-> row, todo |-> todo, member |-> member,
     calculated |-> calculated, written |-> written]

\* No UPDATE yet.
NoneWritten == [u \in Users |-> <<>>]

\* A worker that handles no request.
Idle == Handling("none", [group |-> NoGroup], <<>>, "idle", 0, 0, NoneWritten)

\* ------------------------------------------------------------------- Init

\* The setUp of groups/test_balances.py for g1 (three active members, the
\* first the admin); g2 has an admin, a pending member and a non-member.
Init ==
    /\ groups = Groups
    /\ members = InSetUpOrder([k \in Groups \X Users |->
                    CASE k = <<"g1", "A">> -> GroupMember("admin", "active", 0)
                      [] k = <<"g1", "B">> -> GroupMember("member", "active", 0)
                      [] k = <<"g1", "C">> -> GroupMember("member", "active", 0)
                      [] k = <<"g2", "A">> -> GroupMember("admin", "active", 0)
                      [] k = <<"g2", "B">> -> GroupMember("member", "pending", 0)
                      [] OTHER -> NoMember])
    /\ expenses = EmptyBag
    /\ payments = EmptyBag
    /\ settlements = EmptyBag
    /\ edits = 0
    /\ last = Did("init", NoGroup, "A", {})
    /\ workers = [w \in Workers |-> Idle]
    /\ requests = 0

\* ---------------------------------------------------------------- actions

\* The rows of the four event tables.
EventCount(E, P, T) ==
    SumRows(BagToSet(E), E, [e \in BagToSet(E) |-> 1 + Cardinality(SplitUsers(e))]) + BagCardinality(P) + BagCardinality(T)

\* Expense.objects.create(...), then post_save (update_balances_on_expense_change).
CreateExpense(g, p, a) ==
    /\ EventCount(expenses, payments, settlements) < MaxEvents
    /\ LET e == Expense(g, p, a, NoSplits)
           E == Insert(expenses, e)
       IN /\ expenses' = E
          /\ members' = ProcessExpenseBalanceUpdate(members, E, payments, settlements, e)
    /\ last' = Did("create_expense", g, p, {})
    /\ UNCHANGED <<groups, payments, settlements, edits, workers, requests>>

\* expense.save() of an existing expense, with changed fields or as it is,
\* then post_save (update_balances_on_expense_change) on the saved instance.
UpdateExpense(e, g, p, a) ==
    /\ edits < MaxEdits
    /\ BagIn(e, expenses)
    /\ LET new == Expense(g, p, a, e.splits)
           E == Insert(Delete(expenses, e), new)
       IN /\ expenses' = E
          /\ members' = ProcessExpenseBalanceUpdate(members, E, payments, settlements, new)
    /\ edits' = edits + 1
    /\ last' = Did("update_expense", g, p, {})
    /\ UNCHANGED <<groups, payments, settlements, workers, requests>>

\* expense.delete(): the collector deletes the expense's splits and sends
\* post_delete for each of them (update_balances_on_split_delete, the expense
\* row still being there), then deletes the expense and sends its post_delete
\* (update_balances_on_expense_delete).
DeleteExpense(e) ==
    /\ BagIn(e, expenses)
    /\ LET bare == Expense(e.group, e.paid_by, e.amount, NoSplits)
           E1 == Insert(Delete(expenses, e), bare)
           E2 == Delete(expenses, e)
           RECURSIVE OnSplitsDeleted(_, _)
           OnSplitsDeleted(M, us) ==
               IF us = <<>> THEN M
               ELSE OnSplitsDeleted(
                       OnSplitSignal(M, E1, payments, settlements, bare, Head(us)),
                       Tail(us))
           M1 == OnSplitsDeleted(members, ByCreatedAt(e, SplitUsers(e)))
           M2 == UpdateMemberBalance(M1, E2, payments, settlements, e.group, e.paid_by)
       IN /\ expenses' = E2
          /\ members' = UpdateAllGroupBalances(M2, E2, payments, settlements, e.group)
    /\ last' = Did("delete_expense", e.group, e.paid_by, SplitUsers(e))
    /\ UNCHANGED <<groups, payments, settlements, edits, workers, requests>>

\* Django writes a Decimal to a DecimalField(decimal_places=2) quantized to
\* the cent, rounding half to even; n / d is the exact value.
QuantizeCents(n, d) ==
    LET q == n \div d
        r == n % d
    IN  IF 2 * r < d THEN q
        ELSE IF 2 * r > d THEN q + 1
        ELSE IF q % 2 = 0 THEN q ELSE q + 1

\* ExpenseSplit.save: the amount comes from the percentage when a percentage
\* is given and the amount is zero.
SplitAmount(e, a, pct) ==
    IF pct # <<>> /\ a = 0 THEN QuantizeCents(e.amount * pct[1], 100) ELSE a

\* ExpenseSplit.objects.create(expense, user, amount, percentage), then
\* post_save (update_balances_on_split_change).
CreateSplit(e, u, a, pct) ==
    /\ EventCount(expenses, payments, settlements) < MaxEvents
    /\ BagIn(e, expenses)
    /\ ~e.splits[u].present
    /\ LET new == [e EXCEPT !.splits[u] =
                      [ExpenseSplit(SplitAmount(e, a, pct)) EXCEPT
                          !.created = Cardinality(SplitUsers(e)) + 1]]
           E == Insert(Delete(expenses, e), new)
       IN /\ expenses' = E
          /\ members' = OnSplitSignal(members, E, payments, settlements, new, u)
          /\ last' = Did("create_split", e.group, u, {})
    /\ UNCHANGED <<groups, payments, settlements, edits, workers, requests>>

\* split.save() of an existing split, with another user or amount (a # 0) or
\* as it is, then post_save (update_balances_on_split_change) on the saved
\* instance.
UpdateSplit(e, u, u2, a) ==
    /\ edits < MaxEdits
    /\ BagIn(e, expenses)
    /\ e.splits[u].present
    /\ u2 = u \/ ~e.splits[u2].present
    /\ LET new == [e EXCEPT !.splits[u] = NoSplit,
                             !.splits[u2] = [e.splits[u] EXCEPT !.amount = a]]
           E == Insert(Delete(expenses, e), new)
       IN /\ expenses' = E
          /\ members' = OnSplitSignal(members, E, payments, settlements, new, u2)
    /\ edits' = edits + 1
    /\ last' = Did("update_split", e.group, u2, {})
    /\ UNCHANGED <<groups, payments, settlements, workers, requests>>

\* split.delete(), then post_delete (update_balances_on_split_delete).
DeleteSplit(e, u) ==
    /\ BagIn(e, expenses)
    /\ e.splits[u].present
    /\ LET new == [e EXCEPT !.splits =
                      [v \in Users |->
                          IF v = u THEN NoSplit
                          ELSE IF e.splits[v].created > e.splits[u].created
                          THEN [e.splits[v] EXCEPT !.created = @ - 1]
                          ELSE e.splits[v]]]
           E == Insert(Delete(expenses, e), new)
       IN /\ expenses' = E
          /\ members' = OnSplitSignal(members, E, payments, settlements, new, u)
    /\ last' = Did("delete_split", e.group, u, {})
    /\ UNCHANGED <<groups, payments, settlements, edits, workers, requests>>

\* Payment.objects.create(...), then post_save (update_balances_on_payment_change).
CreatePayment(f, t, g, a) ==
    /\ EventCount(expenses, payments, settlements) < MaxEvents
    /\ LET k == Payment(f, t, g, a)
           P == Insert(payments, k)
       IN /\ payments' = P
          /\ members' = ProcessTransferBalanceUpdate(members, expenses, P, settlements, k)
    /\ last' = Did("create_payment", g, f, {})
    /\ UNCHANGED <<groups, expenses, settlements, edits, workers, requests>>

\* PaymentSerializer.update: from_user and to_user are dropped from the data,
\* the other fields are set and the payment saved, changed or not; then
\* post_save.
UpdatePayment(k, g, a) ==
    /\ edits < MaxEdits
    /\ BagIn(k, payments)
    /\ LET new == Payment(k.from_user, k.to_user, g, a)
           P == Insert(Delete(payments, k), new)
       IN /\ payments' = P
          /\ members' = ProcessTransferBalanceUpdate(members, expenses, P, settlements, new)
    /\ edits' = edits + 1
    /\ last' = Did("update_payment", g, k.from_user, {})
    /\ UNCHANGED <<groups, expenses, settlements, workers, requests>>

\* payment.delete(), then post_delete (update_balances_on_payment_delete).
DeletePayment(k) ==
    /\ BagIn(k, payments)
    /\ LET P == Delete(payments, k)
       IN /\ payments' = P
          /\ members' = ProcessTransferBalanceUpdate(members, expenses, P, settlements, k)
    /\ last' = Did("delete_payment", k.group, k.from_user, {})
    /\ UNCHANGED <<groups, expenses, settlements, edits, workers, requests>>

\* Settlement.objects.create(...) with a Settlement.save that writes the row
\* and only then looks at the amount.
CreateSettlementWrittenFirst(f, t, g, a) ==
    /\ EventCount(expenses, payments, settlements) < MaxEvents
    /\ LET k == Settlement(f, t, g, a)
           T == Insert(settlements, k)
       IN /\ settlements' = T
          /\ members' = ProcessTransferBalanceUpdate(members, expenses, payments, T, k)
          /\ last' = Did(IF a <= 0 THEN "create_settlement_rejected" ELSE "create_settlement",
                         g, f, {})
    /\ UNCHANGED <<groups, expenses, payments, edits, workers, requests>>

\* Settlement.objects.create(...): Settlement.save raises ValueError for an
\* amount <= 0 and writes nothing; otherwise the row is written and post_save
\* (update_balances_on_settlement_change) runs.
CreateSettlement(f, t, g, a) ==
    /\ EventCount(expenses, payments, settlements) < MaxEvents
    /\ IF a <= 0
       THEN /\ last' = Did("create_settlement_rejected", g, f, {})
            /\ UNCHANGED <<members, settlements, workers, requests>>
       ELSE LET k == Settlement(f, t, g, a)
                T == Insert(settlements, k)
            IN /\ settlements' = T
               /\ members' = ProcessTransferBalanceUpdate(members, expenses, payments, T, k)
               /\ last' = Did("create_settlement", g, f, {})
    /\ UNCHANGED <<groups, expenses, payments, edits, workers, requests>>

\* settlement.save() of an existing settlement, with changed fields (the
\* SettlementSerializer leaves every field writable) or as it is, then
\* post_save.
UpdateSettlement(k, f, t, g, a) ==
    /\ edits < MaxEdits
    /\ BagIn(k, settlements)
    /\ a > 0
    /\ LET new == Settlement(f, t, g, a)
           T == Insert(Delete(settlements, k), new)
       IN /\ settlements' = T
          /\ members' = ProcessTransferBalanceUpdate(members, expenses, payments, T, new)
    /\ edits' = edits + 1
    /\ last' = Did("update_settlement", g, f, {})
    /\ UNCHANGED <<groups, expenses, payments, workers, requests>>

\* settlement.delete(), then post_delete (update_balances_on_settlement_delete).
DeleteSettlement(k) ==
    /\ BagIn(k, settlements)
    /\ LET T == Delete(settlements, k)
       IN /\ settlements' = T
          /\ members' = ProcessTransferBalanceUpdate(members, expenses, payments, T, k)
    /\ last' = Did("delete_settlement", k.group, k.from_user, {})
    /\ UNCHANGED <<groups, expenses, payments, edits, workers, requests>>

Next ==
    \/ \E g \in Groups, p \in Users, a \in ExpenseAmounts : CreateExpense(g, p, a)
    \/ \E e \in BagToSet(expenses), g \in Groups, p \in Users, a \in EditedExpenseAmounts :
          UpdateExpense(e, g, p, a)
    \/ \E e \in BagToSet(expenses) : DeleteExpense(e)
    \/ \E e \in BagToSet(expenses), u \in Users, in \in SplitInputs :
          CreateSplit(e, u, in[1], in[2])
    \/ \E e \in BagToSet(expenses), u \in Users, u2 \in Users, a \in SplitAmounts :
          UpdateSplit(e, u, u2, a)
    \/ \E e \in BagToSet(expenses), u \in Users : DeleteSplit(e, u)
    \/ \E ft \in TransferPairs, g \in TransferGroups, a \in PaymentAmounts :
          CreatePayment(ft[1], ft[2], g, a)
    \/ \E k \in BagToSet(payments), g \in TransferGroups \cup Groups,
          a \in EditedTransferAmounts : UpdatePayment(k, g, a)
    \/ \E k \in BagToSet(payments) : DeletePayment(k)
    \/ \E ft \in TransferPairs, g \in TransferGroups, a \in SettlementAmounts :
          CreateSettlement(ft[1], ft[2], g, a)
    \/ \E k \in BagToSet(settlements), ft \in TransferPairs, g \in TransferGroups \cup Groups,
          a \in EditedTransferAmounts \cup SettlementAmounts :
          UpdateSettlement(k, ft[1], ft[2], g, a)
    \/ \E k \in BagToSet(settlements) : DeleteSettlement(k)

Spec == Init /\ [][Next]_vars

\* ----------------------------------------------- properties of the ledger

\* The cached balance of membership (g, u) in table M agrees with the events.
Consistent(M, E, P, T, g, u) ==
    M[<<g, u>>].present => M[<<g, u>>].balance = CalcBalance(E, P, T, g, u)

\* The same in the state an action leads to.
ConsistentAfter(g, U) ==
    \A u \in U : g \in Groups => Consistent(members', expenses', payments', settlements', g, u)

\* Every membership but those of the users U in group g is left as it was.
OthersUnchanged(g, U) ==
    \A k \in Groups \X Users : (k[1] # g \/ k[2] \notin U) => members'[k] = members[k]

\* The users of group g that have a GroupMember row.
MembersOf(g) == {u \in Users : members[<<g, u>>].present}

RECURSIVE SumOver(_, _)
\* The sum of f[x] over the set S.
SumOver(S, f) ==
    IF S = {} THEN 0
    ELSE LET x == CHOOSE y \in S : TRUE IN f[x] + SumOver(S \ {x}, f)

\* The events of group g name members of g only.
OnlyMembersReferenced(g) ==
    /\ \A e \in BagToSet(expenses) :
          e.group = g => {e.paid_by} \cup SplitUsers(e) \subseteq MembersOf(g)
    /\ \A k \in BagToSet(payments) \cup BagToSet(settlements) :
          k.group = g => {k.from_user, k.to_user} \subseteq MembersOf(g)

\* What the expenses of group g leave unsplit: their amounts less their splits.
Unsplit(g) ==
    SumRows({e \in BagToSet(expenses) : e.group = g}, expenses,
            [e \in BagToSet(expenses) |->
                e.amount - SumOver(SplitUsers(e), [u \in Users |-> e.splits[u].amount])])

\* The sum of calculate_member_balance over the members of group g.
GroupTotal(g) ==
    SumOver(MembersOf(g), [u \in Users |-> calculate_member_balance(g, u)])

\* C1: in every state reached by creating, modifying and deleting events, each
\* with its receiver's recomputation, the cached balance of every membership
\* equals calculate_member_balance over the current events.
C1_CachedEqualsCalculated ==
    \A g \in Groups, u \in Users :
        Consistent(members, expenses, payments, settlements, g, u)

\* C3 as stated: in every reachable state the calculated balances of the
\* members of a group whose events name members only sum to zero.
C3_ZeroSum ==
    \A g \in Groups : OnlyMembersReferenced(g) => GroupTotal(g) = 0

\* C3, amended: in every reachable state the calculated balances of the
\* members of a group whose events name members only sum to what the group's
\* expenses leave unsplit (payments and settlements cancel out), which is zero
\* when every expense is split in full.
C3_SumIsUnsplit ==
    \A g \in Groups : OnlyMembersReferenced(g) => GroupTotal(g) = Unsplit(g)

\* A group with a partly split expense, the payer and the split's user members.
C3_Witness ==
    \E e \in BagToSet(expenses) :
        /\ OnlyMembersReferenced(e.group)
        /\ SplitUsers(e) \ {e.paid_by} # {}
        /\ Unsplit(e.group) > 0
        /\ GroupTotal(e.group) = Unsplit(e.group)

\* C6: when an existing event is saved with another payer, split user, sender,
\* receiver or group, the cached balances of the members it named before and
\* of the members it names now equal calculate_member_balance afterwards.
C6_OldAndNewConsistent ==
    [][/\ \A e \in BagToSet(expenses), g \in Groups, p \in Users, a \in EditedExpenseAmounts :
             UpdateExpense(e, g, p, a) =>
                /\ ConsistentAfter(e.group, {e.paid_by} \cup SplitUsers(e))
                /\ ConsistentAfter(g, {p} \cup SplitUsers(e))
       /\ \A e \in BagToSet(expenses), u \in Users, u2 \in Users, a \in SplitAmounts :
             UpdateSplit(e, u, u2, a) => ConsistentAfter(e.group, {u, u2, e.paid_by})
       /\ \A k \in BagToSet(payments), g \in TransferGroups \cup Groups, a \in EditedTransferAmounts :
             UpdatePayment(k, g, a) =>
                /\ ConsistentAfter(k.group, {k.from_user, k.to_user})
                /\ ConsistentAfter(g, {k.from_user, k.to_user})
       /\ \A k \in BagToSet(settlements), ft \in TransferPairs, g \in TransferGroups \cup Groups,
             a \in EditedTransferAmounts \cup SettlementAmounts :
             UpdateSettlement(k, ft[1], ft[2], g, a) =>
                /\ ConsistentAfter(k.group, {k.from_user, k.to_user})
                /\ ConsistentAfter(g, {ft[1], ft[2]})
      ]_vars

\* C7: after an expense is deleted, its splits with it, the cached balance of
\* every active member of its group equals calculate_member_balance, also of
\* the members who had a split on it and had not paid it.
C7_ConsistentAfterExpenseDelete ==
    last.op = "delete_expense" =>
        \A u \in ActiveMembers(members, last.group) :
            Consistent(members, expenses, payments, settlements, last.group, u)

\* An expense has been deleted on which an active member other than the payer
\* had a split, after a modification of the expense or the split.
C7_Witness ==
    /\ last.op = "delete_expense"
    /\ \E u \in last.others \ {last.user} : u \in ActiveMembers(members, last.group)
    /\ edits > 0

\* C8: creating an expense of amount x without splits raises the payer's
\* cached balance by exactly x and changes no other membership.
C8_ExpenseRaisesPayer ==
    [][\A g \in Groups, p \in Users, a \in ExpenseAmounts :
          (CreateExpense(g, p, a) /\ members[<<g, p>>].present) =>
              /\ members'[<<g, p>>].balance = members[<<g, p>>].balance + a
              /\ OthersUnchanged(g, {p})
      ]_vars

\* C9: creating a split of amount s for user u lowers u's cached balance by
\* exactly s and changes no other membership.
C9_SplitLowersUser ==
    [][\A e \in BagToSet(expenses), u \in Users, in \in SplitInputs :
          (CreateSplit(e, u, in[1], in[2]) /\ members[<<e.group, u>>].present) =>
              /\ members'[<<e.group, u>>].balance =
                     members[<<e.group, u>>].balance - SplitAmount(e, in[1], in[2])
              /\ OthersUnchanged(e.group, {u})
      ]_vars

\* C10: creating a payment or a settlement of x from B to A in a group raises
\* B's cached balance by x, lowers A's by x and changes no other membership.
C10_TransferMovesBalance ==
    [][\A ft \in TransferPairs, g \in Groups, a \in PaymentAmounts \cup SettlementAmounts :
          ((CreatePayment(ft[1], ft[2], g, a) \/ (a > 0 /\ CreateSettlement(ft[1], ft[2], g, a)))
             /\ members[<<g, ft[1]>>].present /\ members[<<g, ft[2]>>].present) =>
              /\ members'[<<g, ft[1]>>].balance = members[<<g, ft[1]>>].balance + a
              /\ members'[<<g, ft[2]>>].balance = members[<<g, ft[2]>>].balance - a
              /\ OthersUnchanged(g, {ft[1], ft[2]})
      ]_vars

\* ------------------------------------------- calculate_member_balance alone

\* Copies of one and the same row in a table of a ledger that is read.
MaxCopies == 2

\* The rows the ledgers that are read are made of: expenses with their splits,
\* payments and settlements of g1, of g2 and of no group.
LedgerExpenses ==
    { Expense("g1", "A", 3000, SplitsInSetUpOrder(
          [NoSplits EXCEPT !["A"] = ExpenseSplit(1100), !["B"] = ExpenseSplit(1900)])),
      Expense("g2", "A", 6000, SplitsInSetUpOrder([NoSplits EXCEPT !["A"] = ExpenseSplit(2500)])) }
LedgerPayments ==
    { Payment("A", "B", "g1", 700), Payment("B", "A", "g1", 400), Payment("A", "B", NoGroup, 900) }
LedgerSettlements ==
    { Settlement("A", "B", "g1", 50), Settlement("B", "A", "g1", 20), Settlement("B", "A", "g2", 80) }

\* The tables with up to MaxCopies copies of each row of K.
Ledgers(K) == [K -> 0..MaxCopies]
TableOf(K, n) == [r \in {x \in K : n[x] > 0} |-> n[r]]

\* A ledger as the creations of the rows leave it: every cached balance is the
\* calculated one.
InitCalc ==
    /\ groups = Groups
    /\ \E ne \in Ledgers(LedgerExpenses), np \in Ledgers(LedgerPayments),
          nt \in Ledgers(LedgerSettlements) :
          /\ expenses = TableOf(LedgerExpenses, ne)
          /\ payments = TableOf(LedgerPayments, np)
          /\ settlements = TableOf(LedgerSettlements, nt)
    /\ members = InSetUpOrder([k \in Groups \X Users |->
                    IF k[2] = "C" /\ k[1] = "g2" THEN NoMember
                    ELSE GroupMember(IF k[2] = "A" THEN "admin" ELSE "member", "active",
                                     CalcBalance(expenses, payments, settlements, k[1], k[2]))])
    /\ edits = 0
    /\ last = Did("init", NoGroup, "A", {})
    /\ workers = [w \in Workers |-> Idle]
    /\ requests = 0

\* BalanceManager.calculate_member_balance(group, user): a read.
Calculate(g, u) ==
    /\ last' = Returned("calculate_member_balance", g, u, calculate_member_balance(g, u))
    /\ UNCHANGED <<groups, members, expenses, payments, settlements, edits, workers, requests>>

NextCalc == \E g \in Groups, u \in Users : Calculate(g, u)

SpecCalc == InitCalc /\ [][NextCalc]_vars

\* The rows of table B one by one: each row with the number of its copy.
RowsOf(B) == UNION {{r} \X (1..CopiesIn(r, B)) : r \in BagToSet(B)}

\* What one expense row, and one payment or settlement row, adds to the
\* balance of user u in group g according to the formula of the balance.
ExpenseTerm(e, g, u) ==
    IF e.group # g THEN 0
    ELSE (IF e.paid_by = u THEN e.amount ELSE 0)
         - (IF e.splits[u].present THEN e.splits[u].amount ELSE 0)
TransferTerm(k, g, u) ==
    IF k.group # g THEN 0
    ELSE (IF k.from_user = u THEN k.amount ELSE 0) - (IF k.to_user = u THEN k.amount ELSE 0)

\* The formula of the balance of user u in group g, row by row.
FormulaBalance(g, u) ==
    SumOver(RowsOf(expenses), [rc \in RowsOf(expenses) |-> ExpenseTerm(rc[1], g, u)])
    + SumOver(RowsOf(payments), [rc \in RowsOf(payments) |-> TransferTerm(rc[1], g, u)])
    + SumOver(RowsOf(settlements), [rc \in RowsOf(settlements) |-> TransferTerm(rc[1], g, u)])

\* C2: calculate_member_balance(group, user) returns the expenses the user
\* paid, less the user's splits, plus the payments sent, less the payments
\* received, plus the settlements sent, less the settlements received, over
\* the events of that group only; zero when there are none.
C2_BalanceFormula ==
    last.op = "calculate_member_balance" =>
        /\ last.value = FormulaBalance(last.group, last.user)
        /\ (\A e \in BagToSet(expenses) :
               e.group # last.group \/ (e.paid_by # last.user /\ ~e.splits[last.user].present))
           /\ (\A k \in BagToSet(payments) \cup BagToSet(settlements) :
               k.group # last.group \/ last.user \notin {k.from_user, k.to_user})
           => last.value = 0

\* The balance has been read of a user who has, in the group, an expense paid,
\* a split, payments and settlements sent and received, some row twice, and
\* events in another group and in no group.
C2_Witness ==
    /\ last.op = "calculate_member_balance"
    /\ last.value # 0
    /\ \E e \in BagToSet(expenses) :
          e.group = last.group /\ e.paid_by = last.user /\ e.splits[last.user].present
    /\ \E e \in BagToSet(expenses) : e.group # last.group /\ e.paid_by = last.user
    /\ \A d \in {"from_user", "to_user"} :
          /\ \E k \in BagToSet(payments) : k.group = last.group /\ k[d] = last.user
          /\ \E k \in BagToSet(settlements) : k.group = last.group /\ k[d] = last.user
    /\ \E k \in BagToSet(payments) : k.group = NoGroup /\ CopiesIn(k, payments) > 1
    /\ \E k \in BagToSet(settlements) : k.group \notin {NoGroup, last.group}

\* ------------------------------------------------- requests side by side

\* Two requests are served at once, each creating one event of group g1.  The
\* INSERT of the event is committed when it is done (autocommit); post_save
\* then runs process_expense_balance_update or process_payment_balance_update
\* inside transaction.atomic: its UPDATEs of GroupMember rows are seen by the
\* other request once the block commits, and are undone when it raises.

\* Expense.objects.create(...) by worker w: the INSERT, then post_save enters
\* process_expense_balance_update (the payer first; there are no splits yet).
RequestExpense(w, g, p, a) ==
    /\ workers[w].pc = "idle"
    /\ LET e == Expense(g, p, a, NoSplits)
       IN /\ expenses' = Insert(expenses, e)
          /\ workers' = [workers EXCEPT ![w] =
                            Handling("expense", e, <<p>>, "get", 0, 0, NoneWritten)]
    /\ UNCHANGED <<groups, members, payments, settlements, edits, last, requests>>

\* Payment.objects.create(...) by worker w: the INSERT, then post_save enters
\* process_payment_balance_update (the sender, then the receiver).
RequestPayment(w, f, t, g, a) ==
    /\ workers[w].pc = "idle"
    /\ LET k == Payment(f, t, g, a)
       IN /\ payments' = Insert(payments, k)
          /\ workers' = [workers EXCEPT ![w] =
                            Handling("payment", k, IF g # NoGroup THEN <<f, t>> ELSE <<>>,
                                     "get", 0, 0, NoneWritten)]
    /\ UNCHANGED <<groups, members, expenses, settlements, edits, last, requests>>

\* update_member_balance, first statement: GroupMember.objects.get(group, user)
\* reads the member row (the worker's own UPDATE of it, if any); a user without
\* a row is skipped (DoesNotExist).
GetMember(w) ==
    /\ workers[w].pc = "get"
    /\ workers[w].todo # <<>>
    /\ LET g == workers[w].row.group
           u == Head(workers[w].todo)
       IN workers' = [workers EXCEPT ![w] =
             IF ~members[<<g, u>>].present
             THEN [@ EXCEPT !.todo = Tail(@)]
             ELSE [@ EXCEPT !.pc = Head(CalculateStatements), !.calculated = 0,
                            !.member = IF workers[w].written[u] # <<>>
                                       THEN workers[w].written[u][1]
                                       ELSE members[<<g, u>>].balance]]
    /\ UNCHANGED <<groups, members, expenses, payments, settlements, edits, last, requests>>

\* update_member_balance, second statement: calculate_member_balance, which
\* starts from balance = 0 and runs six aggregate queries one after the other,
\* each over the events committed when it runs; the worker is at the query it
\* runs next, and calculated is its balance so far.
CalculateMember(w) ==
    /\ workers[w].pc \in StatementsOfCalculate
    /\ LET i == CHOOSE j \in DOMAIN CalculateStatements :
                    CalculateStatements[j] = workers[w].pc
       IN workers' = [workers EXCEPT ![w] =
             [@ EXCEPT !.pc = IF i < Len(CalculateStatements)
                              THEN CalculateStatements[i + 1] ELSE "compare",
                       !.calculated = @ + BalanceTerm(expenses, payments, settlements,
                                                      workers[w].row.group,
                                                      Head(workers[w].todo), workers[w].pc)]]
    /\ UNCHANGED <<groups, members, expenses, payments, settlements, edits, last, requests>>

\* update_member_balance that writes the balance with member.save(): post_save
\* of the GroupMember runs handle_member_status_change, which calls
\* update_member_balance for the same user once more.
WriteMemberBySave(w) ==
    /\ workers[w].pc = "compare"
    /\ LET u == Head(workers[w].todo)
       IN IF workers[w].member = workers[w].calculated
          THEN workers' = [workers EXCEPT ![w] = [@ EXCEPT !.pc = "get", !.todo = Tail(@)]]
          ELSE /\ \A q \in Workers \ {w} :
                     workers[q].pc = "idle" \/ workers[q].row.group # workers[w].row.group
                     \/ workers[q].written[u] = <<>>
               /\ workers' = [workers EXCEPT ![w] =
                     [@ EXCEPT !.pc = "get", !.written[u] = <<workers[w].calculated>>]]
    /\ UNCHANGED <<groups, members, expenses, payments, settlements, edits, last, requests>>

\* update_member_balance, the rest: when the balance read differs from the
\* calculated one, filter(id=member.id).update(balance=calculated_balance).
\* The UPDATE waits while another open transaction has updated the same row.
WriteMember(w) ==
    /\ workers[w].pc = "compare"
    /\ LET u == Head(workers[w].todo)
       IN IF workers[w].member = workers[w].calculated
          THEN workers' = [workers EXCEPT ![w] = [@ EXCEPT !.pc = "get", !.todo = Tail(@)]]
          ELSE /\ \A q \in Workers \ {w} :
                     workers[q].pc = "idle" \/ workers[q].row.group # workers[w].row.group
                     \/ workers[q].written[u] = <<>>
               /\ workers' = [workers EXCEPT ![w] =
                     [@ EXCEPT !.pc = "get", !.todo = Tail(@),
                               !.written[u] = <<workers[w].calculated>>]]
    /\ UNCHANGED <<groups, members, expenses, payments, settlements, edits, last, requests>>

\* The handler returns: transaction.atomic commits its UPDATEs, and the
\* request is answered.
CommitHandler(w) ==
    /\ workers[w].pc = "get"
    /\ workers[w].todo = <<>>
    /\ members' = [k \in Groups \X Users |->
                     IF k[1] = workers[w].row.group /\ workers[w].written[k[2]] # <<>>
                     THEN [members[k] EXCEPT !.balance = workers[w].written[k[2]][1]]
                     ELSE members[k]]
    /\ workers' = [workers EXCEPT ![w] = [@ EXCEPT !.pc = "done", !.member = 0, !.calculated = 0, !.written = NoneWritten]]
    /\ UNCHANGED <<groups, expenses, payments, settlements, edits, last, requests>>

\* A statement of the handler raises (the database refuses a balance beyond
\* max_digits=10, aborts the victim of a deadlock, or is gone): transaction.atomic
\* rolls the handler's UPDATEs back and the exception leaves create(); the
\* INSERT of the event was committed before.
RaiseInHandler(w) ==
    /\ workers[w].pc \in {"get", "compare"} \cup StatementsOfCalculate
    /\ workers' = [workers EXCEPT ![w] = [@ EXCEPT !.pc = "failed", !.todo = <<>>, !.member = 0, !.calculated = 0,
                                                     !.written = NoneWritten]]
    /\ UNCHANGED <<groups, members, expenses, payments, settlements, edits, last, requests>>

NextConc ==
    \/ \E w \in Workers, p \in Users, a \in ExpenseAmounts : RequestExpense(w, "g1", p, a)
    \/ \E w \in Workers, ft \in TransferPairs, a \in PaymentAmounts :
          RequestPayment(w, ft[1], ft[2], "g1", a)
    \/ \E w \in Workers : GetMember(w)
    \/ \E w \in Workers : CalculateMember(w)
    \/ \E w \in Workers : WriteMember(w)
    \/ \E w \in Workers : CommitHandler(w)
    \/ \E w \in Workers : RaiseInHandler(w)

SpecConc == Init /\ [][NextConc]_vars

\* The members whose balance the event of worker w changes.
Affected(w) ==
    IF workers[w].kind = "expense" THEN {workers[w].row.paid_by}
    ELSE {workers[w].row.from_user, workers[w].row.to_user}

\* C4: when two event mutations that affect the same member run at once, then
\* after both have finished every cached balance equals
\* calculate_member_balance over all committed events: no update is lost.
C4_NoLostUpdate ==
    (\A w \in Workers : workers[w].pc = "done") =>
        \A g \in Groups, u \in Users :
            Consistent(members, expenses, payments, settlements, g, u)

\* C5: an event write and the cached-balance updates it triggers are one
\* atomic unit, also when the recomputation fails: once a request has ended,
\* alone, its event is not committed unless the cached balances of the members
\* it affects are updated.
C5_EventAndBalancesTogether ==
    \A w \in Workers :
        (workers[w].pc \in {"done", "failed"} /\ \A q \in Workers \ {w} : workers[q].pc = "idle") =>
            (BagIn(workers[w].row, IF workers[w].kind = "expense" THEN expenses ELSE payments) =>
                \A u \in Affected(w) :
                    Consistent(members, expenses, payments, settlements, workers[w].row.group, u))

\* ------------------------------------------------- the reads of a ledger

\* Copies of one and the same row in a table of a ledger that is summarised.
MaxSame == 2

\* The rows of the ledgers that are summarised: the expense and the payment of
\* test_payment_updates_balances, an expense paid by another member, a
\* payment the other way, a settlement, and a settlement of another group.
ReadExpenses ==
    { Expense("g1", "A", 3000, SplitsInSetUpOrder([u \in Users |-> ExpenseSplit(1000)])),
      Expense("g1", "B", 6000, SplitsInSetUpOrder([NoSplits EXCEPT !["A"] = ExpenseSplit(2000)])) }
ReadPayments == { Payment("B", "A", "g1", 1000), Payment("A", "B", "g1", 500) }
ReadSettlements == { Settlement("B", "A", "g1", 1000), Settlement("A", "B", "g2", 700) }

\* The memberships of B and C in g1 when the ledger is read: (status of B,
\* status of C), "none" for no GroupMember row.
ReadMemberships == {<<"active", "active">>, <<"active", "removed">>, <<"pending", "none">>}

\* A ledger as the creations of its rows leave it, the members of g1 in one of
\* the ReadMemberships; in g2 A is the admin and B a pending member.
InitRead ==
    /\ groups = Groups
    /\ \E ne \in [ReadExpenses -> 0..MaxSame], np \in [ReadPayments -> 0..MaxSame],
          nt \in [ReadSettlements -> 0..MaxSame] :
          /\ expenses = TableOf(ReadExpenses, ne)
          /\ payments = TableOf(ReadPayments, np)
          /\ settlements = TableOf(ReadSettlements, nt)
    /\ \E st \in ReadMemberships :
          members = InSetUpOrder([k \in Groups \X Users |->
              LET status == CASE k = <<"g1", "A">> -> "active"
                              [] k = <<"g1", "B">> -> st[1]
                              [] k = <<"g1", "C">> -> st[2]
                              [] k = <<"g2", "A">> -> "active"
                              [] k = <<"g2", "B">> -> "pending"
                              [] OTHER -> "none"
              IN IF status = "none" THEN NoMember
                 ELSE GroupMember(IF k[2] = "A" THEN "admin" ELSE "member", status,
                                  CalcBalance(expenses, payments, settlements, k[1], k[2]))])
    /\ edits = 0
    /\ last = Did("init", NoGroup, "A", {})
    /\ workers = [w \in Workers |-> Idle]
    /\ requests = 0

\* calculate_balance_between_users with the settlements left out.
CalcBetweenWithoutSettlements(E, P, T, g, u1, u2) ==
    SumRows({e \in BagToSet(E) : e.group = g /\ e.paid_by = u1 /\ e.splits[u2].present}, E,
            [e \in BagToSet(E) |-> e.splits[u2].amount])
    - SumRows({e \in BagToSet(E) : e.group = g /\ e.paid_by = u2 /\ e.splits[u1].present}, E,
              [e \in BagToSet(E) |-> e.splits[u1].amount])
    - SumAmount({k \in BagToSet(P) : k.group = g /\ k.from_user = u2 /\ k.to_user = u1}, P)
    + SumAmount({k \in BagToSet(P) : k.group = g /\ k.from_user = u1 /\ k.to_user = u2}, P)

\* calculate_balance_between_users with the settlements counted the other way
\* round.
CalcBetweenSettlementsReversed(E, P, T, g, u1, u2) ==
    CalcBetweenWithoutSettlements(E, P, T, g, u1, u2)
    + SumAmount({k \in BagToSet(T) : k.group = g /\ k.from_user = u2 /\ k.to_user = u1}, T)
    - SumAmount({k \in BagToSet(T) : k.group = g /\ k.from_user = u1 /\ k.to_user = u2}, T)

\* calculate_balance_between_users that leaves out what user1 owes on the
\* expenses of user2.
CalcBetweenWithoutUser1Splits(E, P, T, g, u1, u2) ==
    SumRows({e \in BagToSet(E) : e.group = g /\ e.paid_by = u1 /\ e.splits[u2].present}, E,
            [e \in BagToSet(E) |-> e.splits[u2].amount])
    - SumAmount({k \in BagToSet(P) : k.group = g /\ k.from_user = u2 /\ k.to_user = u1}, P)
    + SumAmount({k \in BagToSet(P) : k.group = g /\ k.from_user = u1 /\ k.to_user = u2}, P)
    - SumAmount({k \in BagToSet(T) : k.group = g /\ k.from_user = u2 /\ k.to_user = u1}, T)
    + SumAmount({k \in BagToSet(T) : k.group = g /\ k.from_user = u1 /\ k.to_user = u2}, T)

\* calculate_balance_between_users(group, user1, user2) over the tables E, P, T.
CalcBetween(E, P, T, g, u1, u2) ==
    LET user2_splits ==
            SumRows({e \in BagToSet(E) : e.group = g /\ e.paid_by = u1 /\ e.splits[u2].present}, E,
                    [e \in BagToSet(E) |-> e.splits[u2].amount])
        user1_splits ==
            SumRows({e \in BagToSet(E) : e.group = g /\ e.paid_by = u2 /\ e.splits[u1].present}, E,
                    [e \in BagToSet(E) |-> e.splits[u1].amount])
        payments_to_user1 ==
            SumAmount({k \in BagToSet(P) : k.group = g /\ k.from_user = u2 /\ k.to_user = u1}, P)
        payments_to_user2 ==
            SumAmount({k \in BagToSet(P) : k.group = g /\ k.from_user = u1 /\ k.to_user = u2}, P)
        settlements_to_user1 ==
            SumAmount({k \in BagToSet(T) : k.group = g /\ k.from_user = u2 /\ k.to_user = u1}, T)
        settlements_to_user2 ==
            SumAmount({k \in BagToSet(T) : k.group = g /\ k.from_user = u1 /\ k.to_user = u2}, T)
    IN  user2_splits - user1_splits - payments_to_user1 + payments_to_user2
        - settlements_to_user1 + settlements_to_user2

calculate_balance_between_users(g, u1, u2) ==
    CalcBetween(expenses, payments, settlements, g, u1, u2)

\* What last keeps of a read about two users: the second one in others.
ReturnedBetween(op, g, u1, u2, v) ==
    [op |-> op, group |-> g, user |-> u1, others |-> {u2}, value |-> v]

\* BalanceManager.calculate_balance_between_users(group, user1, user2): a read.
Between(g, u1, u2) ==
    /\ last' = ReturnedBetween("calculate_balance_between_users", g, u1, u2,
                               calculate_balance_between_users(g, u1, u2))
    /\ UNCHANGED <<groups, members, expenses, payments, settlements, edits, workers, requests>>

\* ------------------------------------------------ the settlement planner

\* Members in the balances given to the planner.
MaxPlanMembers == 4

\* The net balances of the members given to the planner, in cents.
PlanNets == {-3000, -2000, -1000, 0, 1000, 2000, 3000}

\* One entry of member_balances: the user and the net balance.
MemberBalance(id, net) == [user_id |-> id, net_balance |-> net]

\* abs(net) and min(a, b)
Abs(n) == IF n < 0 THEN -n ELSE n
Min(a, b) == IF a <= b THEN a ELSE b

\* The creditors, or with sign = -1 the debtors, of the balances bs, in the
\* order of bs, each with the amount abs(net).
RECURSIVE Parties(_, _)
Parties(bs, sign) ==
    IF bs = <<>> THEN <<>>
    ELSE (IF sign * Head(bs).net_balance > 0
          THEN <<[user_id |-> Head(bs).user_id, amount |-> Abs(Head(bs).net_balance)]>>
          ELSE <<>>) \o Parties(Tail(bs), sign)

\* The inner loop of the planner for one debtor: the creditors from the i-th
\* on; st holds debt_remaining, the creditors and the suggestions so far.
RECURSIVE PayCreditors(_, _, _)
PayCreditors(debtor, st, i) ==
    IF i > Len(st.creditors) THEN st
    ELSE IF st.debt_remaining <= 0 \/ st.creditors[i].amount <= 0
         THEN PayCreditors(debtor, st, i + 1)
         ELSE LET settlement_amount == Min(st.debt_remaining, st.creditors[i].amount)
              IN PayCreditors(debtor,
                     [debt_remaining |-> st.debt_remaining - settlement_amount,
                      creditors |-> [st.creditors EXCEPT ![i].amount = @ - settlement_amount],
                      suggestions |-> Append(st.suggestions,
                                             [from_user_id |-> debtor.user_id,
                                              to_user_id |-> st.creditors[i].user_id,
                                              amount |-> settlement_amount])],
                     i + 1)

\* The outer loop of the planner: the debtors one after another.
RECURSIVE PayDebts(_, _, _)
PayDebts(debtors, creditors, suggestions) ==
    IF debtors = <<>> THEN suggestions
    ELSE LET st == PayCreditors(Head(debtors),
                                [debt_remaining |-> Head(debtors).amount,
                                 creditors |-> creditors, suggestions |-> suggestions], 1)
         IN PayDebts(Tail(debtors), st.creditors, st.suggestions)

\* The planner with the creditors of a debtor taken from the second on.
SuggestionsFromSecondCreditor(bs) ==
    LET RECURSIVE Skip(_, _, _)
        Skip(debtors, creditors, suggestions) ==
            IF debtors = <<>> THEN suggestions
            ELSE LET st == PayCreditors(Head(debtors),
                                        [debt_remaining |-> Head(debtors).amount,
                                         creditors |-> creditors, suggestions |-> suggestions], 2)
                 IN Skip(Tail(debtors), st.creditors, st.suggestions)
    IN Skip(Parties(bs, -1), Parties(bs, 1), <<>>)

\* The planner without the test that skips a debtor with nothing left to pay
\* and a creditor with nothing left to receive.
SuggestionsWithoutSkip(bs) ==
    LET debtors == Parties(bs, -1)
        RECURSIVE All(_, _, _, _)
        All(d, i, creditors, suggestions) ==
            IF d > Len(debtors) THEN suggestions
            ELSE IF i > Len(creditors) THEN All(d + 1, 1, creditors, suggestions)
            ELSE LET paid == SumOver({n \in DOMAIN suggestions :
                                         suggestions[n].from_user_id = debtors[d].user_id},
                                     [n \in DOMAIN suggestions |-> suggestions[n].amount])
                     settlement_amount == Min(debtors[d].amount - paid, creditors[i].amount)
                 IN All(d, i + 1, [creditors EXCEPT ![i].amount = @ - settlement_amount],
                        Append(suggestions, [from_user_id |-> debtors[d].user_id,
                                             to_user_id |-> creditors[i].user_id,
                                             amount |-> settlement_amount]))
    IN All(1, 1, Parties(bs, 1), <<>>)

\* The planner paying every creditor the whole debt of the debtor.
SuggestionsOfWholeDebt(bs) ==
    LET debtors == Parties(bs, -1)
        creditors == Parties(bs, 1)
    IN [n \in 1..(Len(debtors) * Len(creditors)) |->
           [from_user_id |-> debtors[((n - 1) \div Len(creditors)) + 1].user_id,
            to_user_id |-> creditors[((n - 1) % Len(creditors)) + 1].user_id,
            amount |-> debtors[((n - 1) \div Len(creditors)) + 1].amount]]

\* _generate_settlement_suggestions(member_balances), bs being
\* member_balances.values().
GenerateSettlementSuggestions(bs) == PayDebts(Parties(bs, -1), Parties(bs, 1), <<>>)

\* The balances the planner is called with: up to MaxPlanMembers members.
PlanInputs ==
    UNION {[1..n -> PlanNets] : n \in 0..MaxPlanMembers}

\* A call of the planner is about to be made with the balances bs.
InitPlan ==
    /\ groups = {}
    /\ members = [k \in Groups \X Users |-> NoMember]
    /\ expenses = EmptyBag
    /\ payments = EmptyBag
    /\ settlements = EmptyBag
    /\ edits = 0
    /\ \E nets \in PlanInputs :
          last = [op |-> "member_balances", group |-> NoGroup, user |-> "null", others |-> {},
                  value |-> [member_balances |-> [i \in DOMAIN nets |-> MemberBalance(i, nets[i])],
                             suggestions |-> <<>>]]
    /\ workers = [w \in Workers |-> Idle]
    /\ requests = 0

\* _generate_settlement_suggestions(member_balances) is called and returns.
Suggest ==
    /\ last.op = "member_balances"
    /\ last' = [last EXCEPT !.op = "_generate_settlement_suggestions",
                            !.value.suggestions =
                                GenerateSettlementSuggestions(last.value.member_balances)]
    /\ UNCHANGED <<groups, members, expenses, payments, settlements, edits, workers, requests>>

NextPlan == Suggest

SpecPlan == InitPlan /\ [][NextPlan]_vars

\* The planner has returned; the balances it was given and its suggestions.
Planned == last.op = "_generate_settlement_suggestions"
PlanBalances == last.value.member_balances
PlanSuggestions == last.value.suggestions

\* The net balance of member i, and what the suggestions sg have member i pay
\* and receive.
NetOf(i) == PlanBalances[i].net_balance
PaidBy(sg, i) ==
    SumOver({n \in DOMAIN sg : sg[n].from_user_id = i}, [n \in DOMAIN sg |-> sg[n].amount])
PaidTo(sg, i) ==
    SumOver({n \in DOMAIN sg : sg[n].to_user_id = i}, [n \in DOMAIN sg |-> sg[n].amount])
Suggested(sg) == SumOver(DOMAIN sg, [n \in DOMAIN sg |-> sg[n].amount])

\* The balance of member i once every transfer of sg is made.
Remaining(sg, i) == NetOf(i) + PaidBy(sg, i) - PaidTo(sg, i)

\* The debtors and the creditors among the members, and their totals.
Debtors == {i \in DOMAIN PlanBalances : NetOf(i) < 0}
Creditors == {i \in DOMAIN PlanBalances : NetOf(i) > 0}
TotalOwing == SumOver(Debtors, [i \in DOMAIN PlanBalances |-> -NetOf(i)])
TotalOwed == SumOver(Creditors, [i \in DOMAIN PlanBalances |-> NetOf(i)])
ZeroSum == TotalOwed = TotalOwing

\* C14: for balances that sum to zero, the suggested amounts sum to the sum
\* of the positive balances, which is the sum of the absolute negative ones,
\* and once all suggestions are applied every member's balance is exactly 0.
C14_PlanSettlesEverything ==
    (Planned /\ ZeroSum) =>
        /\ Suggested(PlanSuggestions) = TotalOwed
        /\ Suggested(PlanSuggestions) = TotalOwing
        /\ \A i \in DOMAIN PlanBalances : Remaining(PlanSuggestions, i) = 0

\* A zero-sum plan for two debtors and two creditors that needs three
\* transfers.
C14_Witness ==
    /\ Planned /\ ZeroSum
    /\ Cardinality(Debtors) = 2 /\ Cardinality(Creditors) = 2
    /\ Len(PlanSuggestions) = 3

\* The transfers from a debtor to a creditor, of an amount that occurs.
Transfers ==
    {[from_user_id |-> d, to_user_id |-> c, amount |-> a] :
        d \in Debtors, c \in Creditors, a \in {n \in PlanNets : n > 0}}

\* The plans of fewer transfers than n that leave every balance at zero.
SmallerPlans(n) ==
    {sg \in UNION {[1..m -> Transfers] : m \in 0..(n - 1)} :
        \A i \in DOMAIN PlanBalances : Remaining(sg, i) = 0}

\* C15: for balances that sum to zero the plan has the least possible number
\* of transfers: no set of debtor-to-creditor transfers that zeroes every
\* balance has fewer entries.
C15_PlanIsMinimal ==
    (Planned /\ ZeroSum) => SmallerPlans(Len(PlanSuggestions)) = {}

\* C16: for zero-sum balances with D debtors and C creditors there are at
\* most D + C - 1 suggestions (none when nobody owes), each of a strictly
\* positive amount from a member with a negative balance to one with a
\* positive balance; with one creditor there is exactly one suggestion per
\* debtor, for the debtor's whole debt.
C16_PlanShape ==
    (Planned /\ ZeroSum) =>
        LET sg == PlanSuggestions
            D == Cardinality(Debtors)
            C == Cardinality(Creditors)
        IN /\ IF D + C > 0 THEN Len(sg) <= D + C - 1 ELSE Len(sg) = 0
           /\ \A n \in DOMAIN sg :
                 /\ sg[n].amount > 0
                 /\ sg[n].from_user_id \in Debtors
                 /\ sg[n].to_user_id \in Creditors
           /\ C = 1 =>
                 /\ Len(sg) = D
                 /\ \A d \in Debtors :
                       \E n \in DOMAIN sg : /\ sg[n].from_user_id = d
                                            /\ sg[n].to_user_id \in Creditors
                                            /\ sg[n].amount = -NetOf(d)

\* Three debtors have paid one creditor.
C16_Witness ==
    /\ Planned /\ ZeroSum
    /\ Cardinality(Creditors) = 1 /\ Cardinality(Debtors) = 3
    /\ Len(PlanSuggestions) = 3

\* C17: for any balances, zero-sum or not, no debtor is asked for more than
\* the debtor owes and no creditor is given more than the creditor is owed:
\* every balance moves toward zero and keeps its sign; the total suggested is
\* the smaller of the sum of the positive and the sum of the absolute
\* negative balances.
C17_PlanNeverOvershoots ==
    Planned =>
        LET sg == PlanSuggestions
        IN /\ \A i \in Debtors :
                 PaidBy(sg, i) <= -NetOf(i) /\ NetOf(i) <= Remaining(sg, i) /\ Remaining(sg, i) <= 0
           /\ \A i \in Creditors :
                 PaidTo(sg, i) <= NetOf(i) /\ 0 <= Remaining(sg, i) /\ Remaining(sg, i) <= NetOf(i)
           /\ \A i \in DOMAIN PlanBalances \ (Debtors \cup Creditors) : Remaining(sg, i) = 0
           /\ Suggested(sg) = Min(TotalOwed, TotalOwing)

\* Balances that do not sum to zero: two creditors are owed more than two
\* debtors owe, and one creditor is left with a part of the claim.
C17_Witness ==
    /\ Planned /\ TotalOwed > TotalOwing
    /\ Cardinality(Debtors) = 2 /\ Cardinality(Creditors) = 2
    /\ \E i \in Creditors : 0 < Remaining(PlanSuggestions, i) /\ Remaining(PlanSuggestions, i) < NetOf(i)

\* ------------------------------------------------- the balance summaries

\* One entry of summary['members'] of get_group_balance_summary.
MemberData(u, current_balance) ==
    [user_id |-> u, balance |-> current_balance,
     status |-> IF current_balance > 0 THEN "owed"
                ELSE IF current_balance < 0 THEN "owes" ELSE "settled"]

\* The loop of get_group_balance_summary over the members us, summary being
\* what the members before have left.
RECURSIVE SummariseMembers(_, _, _, _, _, _)
SummariseMembers(E, P, T, g, us, summary) ==
    IF us = <<>> THEN summary
    ELSE LET current_balance == CalcBalance(E, P, T, g, Head(us))
         IN SummariseMembers(E, P, T, g, Tail(us),
                [members |-> Append(summary.members, MemberData(Head(us), current_balance)),
                 total_owed |-> IF current_balance > 0
                                THEN summary.total_owed + current_balance
                                ELSE summary.total_owed,
                 total_owing |-> IF current_balance < 0
                                 THEN summary.total_owing + Abs(current_balance)
                                 ELSE summary.total_owing,
                 net_balance |-> summary.net_balance])

\* The summary before the loop.
EmptySummary == [members |-> <<>>, total_owed |-> 0, total_owing |-> 0, net_balance |-> 0]

\* get_group_balance_summary over every GroupMember row of the group, whatever
\* its status.
GetGroupBalanceSummaryOfAllRows(M, E, P, T, g) ==
    LET summary == SummariseMembers(E, P, T, g,
                       ByJoinedAt(M, g, {u \in Users : M[<<g, u>>].present}), EmptySummary)
    IN [summary EXCEPT !.net_balance = summary.total_owed - summary.total_owing]

\* get_group_balance_summary(group)
GetGroupBalanceSummary(M, E, P, T, g) ==
    LET summary == SummariseMembers(E, P, T, g, ByJoinedAt(M, g, ActiveMembers(M, g)), EmptySummary)
    IN [summary EXCEPT !.net_balance = summary.total_owed - summary.total_owing]

get_group_balance_summary(g) ==
    GetGroupBalanceSummary(members, expenses, payments, settlements, g)

\* One entry of summary['members'] of get_group_balance_summary_for_user: the
\* current user's own, and another member's.
OwnData(u) ==
    [user_id |-> u, balance_with_you |-> 0, status |-> "you", is_current_user |-> TRUE]
PeerData(u, balance_with_current_user) ==
    [user_id |-> u, balance_with_you |-> balance_with_current_user,
     status |-> IF balance_with_current_user > 0 THEN "owes_you"
                ELSE IF balance_with_current_user < 0 THEN "you_owe" ELSE "settled",
     is_current_user |-> FALSE]

\* The loop of get_group_balance_summary_for_user over the members us; st
\* holds the summary and current_user_balance.
RECURSIVE SummariseForUser(_, _, _, _, _, _, _)
SummariseForUser(E, P, T, g, current_user, us, st) ==
    IF us = <<>> THEN st
    ELSE LET member_absolute_balance == CalcBalance(E, P, T, g, Head(us))
             balance_with_current_user == CalcBetween(E, P, T, g, current_user, Head(us))
         IN SummariseForUser(E, P, T, g, current_user, Tail(us),
                IF Head(us) = current_user
                THEN [st EXCEPT !.current_user_balance = member_absolute_balance,
                                !.members = Append(@, OwnData(Head(us)))]
                ELSE [st EXCEPT !.members = Append(@, PeerData(Head(us), balance_with_current_user)),
                                !.total_owed_to_you =
                                    IF balance_with_current_user > 0
                                    THEN @ + balance_with_current_user ELSE @,
                                !.total_you_owe =
                                    IF balance_with_current_user < 0
                                    THEN @ + Abs(balance_with_current_user) ELSE @])

\* get_group_balance_summary_for_user(group, current_user)
GetGroupBalanceSummaryForUser(M, E, P, T, g, current_user) ==
    LET st == SummariseForUser(E, P, T, g, current_user, ByJoinedAt(M, g, ActiveMembers(M, g)),
                  [members |-> <<>>, total_owed_to_you |-> 0, total_you_owe |-> 0,
                   current_user_balance |-> 0])
    IN [current_user_id |-> current_user,
        members |-> st.members,
        total_owed_to_you |-> st.total_owed_to_you,
        total_you_owe |-> st.total_you_owe,
        your_net_balance |-> st.current_user_balance]

\* The HTTP status codes of the responses.
HTTP_200_OK == 200
HTTP_403_FORBIDDEN == 403

\* A response of a view.
Response(data, status) == [data |-> data, status |-> status]

\* The body of the response to a user with no GroupMember row in the group.
NotAMember == [error |-> "You are not a member of this group"]

\* GroupViewSet.balance_summary for the request of user in group g.
BalanceSummaryResponse(M, E, P, T, g, user) ==
    IF ~M[<<g, user>>].present
    THEN Response(NotAMember, HTTP_403_FORBIDDEN)
    ELSE Response(GetGroupBalanceSummaryForUser(M, E, P, T, g, user), HTTP_200_OK)

\* One entry of member_balances of group_payment_summary.
PaymentSummaryBalance(E, P, g, u) ==
    LET total_paid == SumAmount({e \in BagToSet(E) : e.group = g /\ e.paid_by = u}, E)
        total_owed == SumRows({e \in BagToSet(E) : e.group = g /\ e.splits[u].present}, E,
                              [e \in BagToSet(E) |-> e.splits[u].amount])
        payments_made == SumAmount({k \in BagToSet(P) : k.group = g /\ k.from_user = u}, P)
        payments_received == SumAmount({k \in BagToSet(P) : k.group = g /\ k.to_user = u}, P)
    IN [user_id |-> u, total_paid |-> total_paid, total_owed |-> total_owed,
        payments_made |-> payments_made, payments_received |-> payments_received,
        net_balance |-> total_paid - total_owed + payments_received - payments_made]

\* The body of the refusal of group_payment_summary.
NotAMemberOfGroup == [error |-> "You are not a member of this group."]

\* group_payment_summary for the request of user in group g: the balances of
\* all GroupMember rows of the group, the totals and the planner's suggestions.
GroupPaymentSummaryResponse(M, E, P, g, user) ==
    IF ~M[<<g, user>>].present
    THEN Response(NotAMemberOfGroup, HTTP_403_FORBIDDEN)
    ELSE LET group_members == ByJoinedAt(M, g, {u \in Users : M[<<g, u>>].present})
             member_balances == [i \in DOMAIN group_members |->
                                    PaymentSummaryBalance(E, P, g, group_members[i])]
         IN Response([group_id |-> g,
                      member_balances |-> member_balances,
                      total_expenses |-> SumAmount({e \in BagToSet(E) : e.group = g}, E),
                      total_payments |-> SumAmount({k \in BagToSet(P) : k.group = g}, P),
                      settlement_suggestions |-> GenerateSettlementSuggestions(member_balances)],
                     HTTP_200_OK)

\* The user of a read that no user requests.
NoUser == "null"

\* BalanceManager.get_group_balance_summary(group): a read.
Summary(g) ==
    /\ last' = Returned("get_group_balance_summary", g, NoUser, get_group_balance_summary(g))
    /\ UNCHANGED <<groups, members, expenses, payments, settlements, edits, workers, requests>>

\* GET balance-summary of group g by user.
BalanceSummary(g, user) ==
    /\ last' = Returned("balance_summary", g, user,
                        BalanceSummaryResponse(members, expenses, payments, settlements, g, user))
    /\ UNCHANGED <<groups, members, expenses, payments, settlements, edits, workers, requests>>

\* GET group_payment_summary of group g by user.
GroupPaymentSummary(g, user) ==
    /\ last' = Returned("group_payment_summary", g, user,
                        GroupPaymentSummaryResponse(members, expenses, payments, g, user))
    /\ UNCHANGED <<groups, members, expenses, payments, settlements, edits, workers, requests>>

NextRead ==
    \/ \E g \in Groups, u1, u2 \in Users : Between(g, u1, u2)
    \/ \E g \in Groups : Summary(g)
    \/ \E g \in Groups, user \in Users : BalanceSummary(g, user)
    \/ \E g \in Groups, user \in Users : GroupPaymentSummary(g, user)

SpecRead == InitRead /\ [][NextRead]_vars

\* ------------------------------------------- the properties of the reads

\* The read that last names: its operation, and the two users of a read
\* about two users.
Read(op) == last.op = op
User1 == last.user
User2 == CHOOSE u \in last.others : TRUE

\* The split amounts of user u on the expenses of group g that payer paid,
\* row by row.
SplitsOn(g, payer, u) ==
    LET rows == {r \in RowsOf(expenses) :
                    r[1].group = g /\ r[1].paid_by = payer /\ r[1].splits[u].present}
    IN SumOver(rows, [r \in rows |-> r[1].splits[u].amount])

\* The payments, and the settlements, of group g from one user to another,
\* row by row.
PaidFromTo(g, from, to) ==
    LET rows == {r \in RowsOf(payments) :
                    r[1].group = g /\ r[1].from_user = from /\ r[1].to_user = to}
    IN SumOver(rows, [r \in rows |-> r[1].amount])
SettledFromTo(g, from, to) ==
    LET rows == {r \in RowsOf(settlements) :
                    r[1].group = g /\ r[1].from_user = from /\ r[1].to_user = to}
    IN SumOver(rows, [r \in rows |-> r[1].amount])
TransferredFromTo(g, from, to) == PaidFromTo(g, from, to) + SettledFromTo(g, from, to)

\* C11, as stated: the balance between user1 and user2 is user2's splits on
\* user1's expenses, minus user1's splits on user2's expenses, plus the
\* payments and settlements from user2 to user1, minus those from user1 to
\* user2.
C11_TransfersToUser1Added ==
    Read("calculate_balance_between_users") =>
        last.value = SplitsOn(last.group, User1, User2) - SplitsOn(last.group, User2, User1)
                     + TransferredFromTo(last.group, User2, User1)
                     - TransferredFromTo(last.group, User1, User2)

\* C11, amended: the balance between user1 and user2 is user2's splits on
\* user1's expenses, minus user1's splits on user2's expenses, minus the
\* payments and settlements from user2 to user1, plus those from user1 to
\* user2; what user2 pays to user1 lowers what user2 owes user1.
C11_TransfersToUser1Subtracted ==
    Read("calculate_balance_between_users") =>
        last.value = SplitsOn(last.group, User1, User2) - SplitsOn(last.group, User2, User1)
                     - TransferredFromTo(last.group, User2, User1)
                     + TransferredFromTo(last.group, User1, User2)

\* The balance between two users with splits on each other's expenses, a
\* payment each way and a settlement, has been calculated.
C11_Witness ==
    /\ Read("calculate_balance_between_users") /\ User1 # User2
    /\ SplitsOn(last.group, User1, User2) > 0 /\ SplitsOn(last.group, User2, User1) > 0
    /\ PaidFromTo(last.group, User2, User1) > 0 /\ PaidFromTo(last.group, User1, User2) > 0
    /\ SettledFromTo(last.group, User2, User1) > 0
    /\ last.value # 0

\* User A paid expenses on which B's splits total s, B paid A payments and
\* settlements of the group that total s, and nothing else of the group links
\* the two: no expense of B with a split of A, no transfer from A to B.
DebtCleared(g, A, B) ==
    /\ A # B
    /\ SplitsOn(g, A, B) = TransferredFromTo(g, B, A)
    /\ \A e \in BagToSet(expenses) : ~(e.group = g /\ e.paid_by = B /\ e.splits[A].present)
    /\ \A k \in BagToSet(payments) \cup BagToSet(settlements) :
          ~(k.group = g /\ k.from_user = A /\ k.to_user = B)

\* C12: when B has paid A, by payments or settlements of the group, the
\* total of B's splits on A's expenses and nothing else links them, the
\* balance between A and B is 0.
C12_ClearedDebtIsZero ==
    (Read("calculate_balance_between_users") /\ DebtCleared(last.group, User1, User2))
        => last.value = 0

\* B owed A for two expenses and has cleared the debt by a payment and a
\* settlement.
C12_Witness ==
    /\ Read("calculate_balance_between_users") /\ DebtCleared(last.group, User1, User2)
    /\ SplitsOn(last.group, User1, User2) > 0
    /\ PaidFromTo(last.group, User2, User1) > 0 /\ SettledFromTo(last.group, User2, User1) > 0
    /\ last.value = 0

\* The response of a view that last names: its body, and whether the view
\* answered with it.
Answered(op) == Read(op) /\ last.value.status = HTTP_200_OK
Refused(op) == Read(op) /\ last.value.status = HTTP_403_FORBIDDEN
Body == last.value.data

\* C13: for every member, the net balance that group_payment_summary reports
\* and gives to the settlement planner is calculate_member_balance(group,
\* member).
C13_SummaryNetIsMemberBalance ==
    Answered("group_payment_summary") =>
        \A i \in DOMAIN Body.member_balances :
            Body.member_balances[i].net_balance
                = calculate_member_balance(last.group, Body.member_balances[i].user_id)

\* The users that the rows of a summary list, and the position of user u
\* among the rows.
Listed(rows) == {rows[i].user_id : i \in DOMAIN rows}
RowOf(rows, u) == rows[CHOOSE i \in DOMAIN rows : rows[i].user_id = u]

\* C18: get_group_balance_summary lists the active members of the group and
\* nobody else, each once, with the calculated balance and the status owed,
\* owes or settled by its sign; total_owed is the sum of the positive
\* balances, total_owing the sum of the absolute negative ones, net_balance
\* their difference, which is the sum of the listed balances.
C18_SummaryOfActiveMembers ==
    Read("get_group_balance_summary") =>
        LET rows == last.value.members
            active == ActiveMembers(members, last.group)
            bal == [u \in Users |-> calculate_member_balance(last.group, u)]
        IN /\ Listed(rows) = active
           /\ Len(rows) = Cardinality(active)
           /\ \A i \in DOMAIN rows :
                 /\ rows[i].balance = bal[rows[i].user_id]
                 /\ rows[i].status = (CASE rows[i].balance > 0 -> "owed"
                                        [] rows[i].balance < 0 -> "owes"
                                        [] OTHER -> "settled")
           /\ last.value.total_owed = SumOver({u \in active : bal[u] > 0}, bal)
           /\ last.value.total_owing = - SumOver({u \in active : bal[u] < 0}, bal)
           /\ last.value.net_balance = last.value.total_owed - last.value.total_owing
           /\ last.value.net_balance = SumOver(active, bal)

\* A summary that lists a member who is owed and one who owes, of a group
\* that has a member who is not active and whose balance is not zero.
C18_Witness ==
    /\ Read("get_group_balance_summary")
    /\ \E i, j \in DOMAIN last.value.members :
          last.value.members[i].status = "owed" /\ last.value.members[j].status = "owes"
    /\ \E u \in MembersOf(last.group) \ ActiveMembers(members, last.group) :
          calculate_member_balance(last.group, u) # 0
    /\ last.value.total_owed > 0 /\ last.value.total_owing > 0

\* The requesting user is an active member of the group.
ActiveRequester == last.user \in ActiveMembers(members, last.group)

\* C20: balance_summary answers Forbidden whenever the requesting user is not
\* an active member of the group: has no membership, or one that is pending
\* or removed.
C20_ForbiddenUnlessActive ==
    (Read("balance_summary") /\ ~ActiveRequester) => last.value.status = HTTP_403_FORBIDDEN

\* The parts of the relative summary: the viewer's own row, the rows of the
\* other members, the totals, and the viewer's net balance.
OwnRowIsYou ==
    \A i \in DOMAIN Body.members :
        Body.members[i].user_id = last.user =>
            Body.members[i].balance_with_you = 0 /\ Body.members[i].status = "you"
PeerRowsAreBetween ==
    /\ Listed(Body.members) \ {last.user} = ActiveMembers(members, last.group) \ {last.user}
    /\ \A i \in DOMAIN Body.members :
          Body.members[i].user_id # last.user =>
              /\ Body.members[i].balance_with_you
                    = calculate_balance_between_users(last.group, last.user, Body.members[i].user_id)
              /\ Body.members[i].status = (CASE Body.members[i].balance_with_you > 0 -> "owes_you"
                                             [] Body.members[i].balance_with_you < 0 -> "you_owe"
                                             [] OTHER -> "settled")
TotalsAreOfPeers ==
    LET peers == ActiveMembers(members, last.group) \ {last.user}
        with == [u \in Users |-> calculate_balance_between_users(last.group, last.user, u)]
    IN /\ Body.total_owed_to_you = SumOver({u \in peers : with[u] > 0}, with)
       /\ Body.total_you_owe = - SumOver({u \in peers : with[u] < 0}, with)
NetIsOwnBalance == Body.your_net_balance = calculate_member_balance(last.group, last.user)

\* C19: in the summary that balance_summary answers with, the viewer's own
\* row has balance_with_you 0 and status you and is not in the totals; every
\* other active member's row has the balance between the viewer and the
\* member, with its status by the sign; your_net_balance is the viewer's
\* calculated balance, for every user the endpoint answers.
C19_RelativeSummary ==
    Answered("balance_summary") =>
        OwnRowIsYou /\ PeerRowsAreBetween /\ TotalsAreOfPeers /\ NetIsOwnBalance

\* ------------------------------------------------ the refused settlements

\* C22: saving a Settlement whose amount is <= 0 is refused before anything
\* is written: the step that refuses it adds no Settlement, and leaves every
\* event and every cached balance as it was.
C22_RefusedSettlementWritesNothing ==
    [][last'.op = "create_settlement_rejected" =>
          UNCHANGED <<groups, members, expenses, payments, settlements>>]_vars

\* A settlement of amount 0 between two members of g1 has been refused while
\* the group had an event and a balance that is not zero.
C22_Witness ==
    /\ last.op = "create_settlement_rejected" /\ last.group = "g1"
    /\ EventCount(expenses, payments, settlements) > 0
    /\ \E u \in Users : members[<<"g1", u>>].balance # 0
    /\ settlements = EmptyBag

\* ------------------------------------------------- the reads, all of them

\* The memberships of g1 when the reads are made: the status of B and of C
\* ("none" for no GroupMember row), and the users who were removed from the
\* group and added again after the events were recorded: their cached
\* balance is the 0 of the new row.
QueryMemberships ==
    { [B |-> "active", C |-> "active", readded |-> {"C"}],
      [B |-> "pending", C |-> "none", readded |-> {}] }

\* A ledger as in InitRead, the members of g1 in one of the QueryMemberships.
InitQuery ==
    /\ groups = Groups
    /\ \E ne \in [ReadExpenses -> 0..MaxSame], np \in [ReadPayments -> 0..MaxSame],
          nt \in [ReadSettlements -> 0..MaxSame] :
          /\ expenses = TableOf(ReadExpenses, ne)
          /\ payments = TableOf(ReadPayments, np)
          /\ settlements = TableOf(ReadSettlements, nt)
    /\ \E st \in QueryMemberships :
          members = InSetUpOrder([k \in Groups \X Users |->
              LET status == CASE k = <<"g1", "A">> -> "active"
                              [] k = <<"g1", "B">> -> st.B
                              [] k = <<"g1", "C">> -> st.C
                              [] k = <<"g2", "A">> -> "active"
                              [] k = <<"g2", "B">> -> "pending"
                              [] OTHER -> "none"
              IN IF status = "none" THEN NoMember
                 ELSE GroupMember(IF k[2] = "A" THEN "admin" ELSE "member", status,
                                  IF k[1] = "g1" /\ k[2] \in st.readded THEN 0
                                  ELSE CalcBalance(expenses, payments, settlements, k[1], k[2]))])
    /\ edits = 0
    /\ last = Did("init", NoGroup, "A", {})
    /\ workers = [w \in Workers |-> Idle]
    /\ requests = 0

\* What a method returns for None.
None == [none |-> TRUE]

\* get_member_balance_details that reports the cached balance of the row.
GetMemberBalanceDetailsOfCached(M, E, P, T, g, u) ==
    IF ~M[<<g, u>>].present THEN None
    ELSE [user_id |-> u,
          current_balance |-> M[<<g, u>>].balance,
          breakdown |->
            [expenses_paid |-> SumAmount({e \in BagToSet(E) : e.group = g /\ e.paid_by = u}, E),
             expense_shares_owed |->
                SumRows({e \in BagToSet(E) : e.group = g /\ e.splits[u].present}, E,
                        [e \in BagToSet(E) |-> e.splits[u].amount]),
             payments_made |-> SumAmount({k \in BagToSet(P) : k.group = g /\ k.from_user = u}, P),
             payments_received |-> SumAmount({k \in BagToSet(P) : k.group = g /\ k.to_user = u}, P),
             settlements_made |-> SumAmount({k \in BagToSet(T) : k.group = g /\ k.from_user = u}, T),
             settlements_received |-> SumAmount({k \in BagToSet(T) : k.group = g /\ k.to_user = u}, T)],
          status |-> IF M[<<g, u>>].balance > 0 THEN "owed"
                     ELSE IF M[<<g, u>>].balance < 0 THEN "owes" ELSE "settled"]

\* get_member_balance_details(group, user)
GetMemberBalanceDetails(M, E, P, T, g, u) ==
    IF ~M[<<g, u>>].present THEN None
    ELSE LET expenses_paid ==
                 SumAmount({e \in BagToSet(E) : e.group = g /\ e.paid_by = u}, E)
             expense_splits ==
                 SumRows({e \in BagToSet(E) : e.group = g /\ e.splits[u].present}, E,
                         [e \in BagToSet(E) |-> e.splits[u].amount])
             payments_made ==
                 SumAmount({k \in BagToSet(P) : k.group = g /\ k.from_user = u}, P)
             payments_received ==
                 SumAmount({k \in BagToSet(P) : k.group = g /\ k.to_user = u}, P)
             settlements_made ==
                 SumAmount({k \in BagToSet(T) : k.group = g /\ k.from_user = u}, T)
             settlements_received ==
                 SumAmount({k \in BagToSet(T) : k.group = g /\ k.to_user = u}, T)
             current_balance == CalcBalance(E, P, T, g, u)
         IN [user_id |-> u,
             current_balance |-> current_balance,
             breakdown |-> [expenses_paid |-> expenses_paid,
                            expense_shares_owed |-> expense_splits,
                            payments_made |-> payments_made,
                            payments_received |-> payments_received,
                            settlements_made |-> settlements_made,
                            settlements_received |-> settlements_received],
             status |-> IF current_balance > 0 THEN "owed"
                        ELSE IF current_balance < 0 THEN "owes" ELSE "settled"]

\* get_member_balance_details that reports the cached balance and then
\* brings it up to date with update_member_balance.
DetailsThatUpdates(g, u) ==
    /\ last' = Returned("get_member_balance_details", g, u,
                        GetMemberBalanceDetailsOfCached(members, expenses, payments,
                                                        settlements, g, u))
    /\ members' = UpdateMemberBalance(members, expenses, payments, settlements, g, u)
    /\ UNCHANGED <<groups, expenses, payments, settlements, edits, workers, requests>>

\* BalanceManager.get_member_balance_details(group, user): a read.
Details(g, u) ==
    /\ last' = Returned("get_member_balance_details", g, u,
                        GetMemberBalanceDetails(members, expenses, payments, settlements, g, u))
    /\ UNCHANGED <<groups, members, expenses, payments, settlements, edits, workers, requests>>

NextQuery ==
    \/ \E g \in Groups, u \in Users : Calculate(g, u)
    \/ \E g \in Groups, u1, u2 \in Users : Between(g, u1, u2)
    \/ \E g \in Groups : Summary(g)
    \/ \E g \in Groups, user \in Users : BalanceSummary(g, user)
    \/ \E g \in Groups, u \in Users : Details(g, u)
    \/ \E g \in Groups, user \in Users : GroupPaymentSummary(g, user)

SpecQuery == InitQuery /\ [][NextQuery]_vars

\* What the rows of the tables give for the six components of the balance of
\* user u in group g, row by row.
PaidRows(g, u) ==
    LET rows == {r \in RowsOf(expenses) : r[1].group = g /\ r[1].paid_by = u}
    IN SumOver(rows, [r \in rows |-> r[1].amount])
ShareRows(g, u) ==
    LET rows == {r \in RowsOf(expenses) : r[1].group = g /\ r[1].splits[u].present}
    IN SumOver(rows, [r \in rows |-> r[1].splits[u].amount])
TransferRows(B, g, u, end) ==
    LET rows == {r \in RowsOf(B) : r[1].group = g /\ r[1][end] = u}
    IN SumOver(rows, [r \in rows |-> r[1].amount])

\* C24: get_member_balance_details returns None for a user with no
\* membership in the group; for a member it returns the six sums of the
\* member's rows and a current_balance that is expenses_paid -
\* expense_shares_owed + payments_made - payments_received + settlements_made
\* - settlements_received and is calculate_member_balance, with the status
\* owed, owes or settled by its sign.
C24_DetailsAddUp ==
    Read("get_member_balance_details") =>
        IF ~members[<<last.group, last.user>>].present THEN last.value = None
        ELSE LET b == last.value.breakdown
                 g == last.group
                 u == last.user
             IN /\ b.expenses_paid = PaidRows(g, u)
                /\ b.expense_shares_owed = ShareRows(g, u)
                /\ b.payments_made = TransferRows(payments, g, u, "from_user")
                /\ b.payments_received = TransferRows(payments, g, u, "to_user")
                /\ b.settlements_made = TransferRows(settlements, g, u, "from_user")
                /\ b.settlements_received = TransferRows(settlements, g, u, "to_user")
                /\ last.value.current_balance
                      = b.expenses_paid - b.expense_shares_owed + b.payments_made
                        - b.payments_received + b.settlements_made - b.settlements_received
                /\ last.value.current_balance = calculate_member_balance(g, u)
                /\ last.value.status = (CASE last.value.current_balance > 0 -> "owed"
                                          [] last.value.current_balance < 0 -> "owes"
                                          [] OTHER -> "settled")

\* The details of a member whose six sums are all positive and whose cached
\* balance is not the calculated one.
C24_Witness ==
    /\ Read("get_member_balance_details") /\ members[<<last.group, last.user>>].present
    /\ \A c \in {"expenses_paid", "expense_shares_owed", "payments_made",
                 "payments_received", "settlements_made"} : last.value.breakdown[c] > 0
    /\ \E u \in Users : /\ members[<<last.group, u>>].present
                        /\ members[<<last.group, u>>].balance
                              # calculate_member_balance(last.group, u)
    /\ last.value.current_balance # 0

\* The read that a step makes is the one that the step before made: the same
\* operation with the same arguments.
SameReadAgain ==
    /\ last'.op = last.op /\ last'.group = last.group
    /\ last'.user = last.user /\ last'.others = last.others

\* C28: calculate_member_balance and the reads built on it (the absolute and
\* the relative summary, the balance between two users, the details of a
\* member, the payment summary with the settlement planner) change no group,
\* no membership with its cached balance and no event, and a read made twice
\* in a row returns the same value.
C28_ReadsChangeNothing ==
    [][/\ UNCHANGED <<groups, members, expenses, payments, settlements>>
       /\ SameReadAgain => last'.value = last.value]_vars

\* A read has returned the calculated balance of a member whose cached
\* balance is another one, and the cached balance is as it was.
C28_Witness ==
    /\ last.op \in {"get_member_balance_details", "calculate_member_balance"}
    /\ members[<<last.group, last.user>>].present
    /\ members[<<last.group, last.user>>].balance # calculate_member_balance(last.group, last.user)
    /\ members[<<last.group, last.user>>].balance = 0

\* ------------------------------------------- the shares of a whole group

\* The rows of the ledgers whose relative summaries are compared with the
\* balance of the viewer: the expense of test_expense_with_equal_splits, an
\* expense of another payer split unequally among all, an expense split in
\* part only, two payments and a settlement.
ShareExpenses ==
    { Expense("g1", "A", 3000, SplitsInSetUpOrder([u \in Users |-> ExpenseSplit(1000)])),
      Expense("g1", "B", 6000, SplitsInSetUpOrder(
          [A |-> ExpenseSplit(2000), B |-> ExpenseSplit(1000), C |-> ExpenseSplit(3000)])),
      Expense("g1", "C", 6000, SplitsInSetUpOrder([NoSplits EXCEPT !["A"] = ExpenseSplit(2000)])) }
SharePayments == { Payment("B", "A", "g1", 1000), Payment("A", "C", "g1", 500) }
ShareSettlements == { Settlement("C", "B", "g1", 1000) }

\* The status of C in g1 when the summaries are made.
ShareMemberships == {"active", "removed"}

\* A ledger as the creations of its rows leave it; A, B and C are the members
\* of g1, A and B of g2 as in Init.
InitShare ==
    /\ groups = Groups
    /\ \E ne \in [ShareExpenses -> 0..MaxSame], np \in [SharePayments -> 0..MaxSame],
          nt \in [ShareSettlements -> 0..MaxSame] :
          /\ expenses = TableOf(ShareExpenses, ne)
          /\ payments = TableOf(SharePayments, np)
          /\ settlements = TableOf(ShareSettlements, nt)
    /\ \E st \in ShareMemberships :
          members = InSetUpOrder([k \in Groups \X Users |->
              LET status == CASE k = <<"g1", "C">> -> st
                              [] k = <<"g2", "B">> -> "pending"
                              [] k = <<"g2", "C">> -> "none"
                              [] OTHER -> "active"
              IN IF status = "none" THEN NoMember
                 ELSE GroupMember(IF k[2] = "A" THEN "admin" ELSE "member", status,
                                  CalcBalance(expenses, payments, settlements, k[1], k[2]))])
    /\ edits = 0
    /\ last = Did("init", NoGroup, "A", {})
    /\ workers = [w \in Workers |-> Idle]
    /\ requests = 0

NextShare == \E g \in Groups, user \in Users : BalanceSummary(g, user)

SpecShare == InitShare /\ [][NextShare]_vars

\* Every expense of group g is split in full, every user that an event of g
\* names is an active member of g, and no transfer of g is from a user to
\* the same user.
FullySplit(g) ==
    \A e \in BagToSet(expenses) :
        e.group = g =>
            SumOver(SplitUsers(e), [u \in SplitUsers(e) |-> e.splits[u].amount]) = e.amount
ParticipantsActive(g) ==
    /\ \A e \in BagToSet(expenses) :
          e.group = g => {e.paid_by} \cup SplitUsers(e) \subseteq ActiveMembers(members, g)
    /\ \A k \in BagToSet(payments) \cup BagToSet(settlements) :
          k.group = g => {k.from_user, k.to_user} \subseteq ActiveMembers(members, g)
NoSelfTransfer(g) ==
    \A k \in BagToSet(payments) \cup BagToSet(settlements) :
        k.group = g => k.from_user # k.to_user

\* C30: when every expense of the group is split in full, every participant
\* of its events is an active member and no transfer is to the sender, the
\* relative summary of a viewer has total_owed_to_you - total_you_owe =
\* your_net_balance: the balances between the viewer and the other active
\* members add up to the viewer's calculated balance.
C30_PeersAddUpToOwnBalance ==
    (Answered("balance_summary") /\ FullySplit(last.group) /\ ParticipantsActive(last.group)
        /\ NoSelfTransfer(last.group)) =>
        LET peers == ActiveMembers(members, last.group) \ {last.user}
            with == [u \in Users |-> calculate_balance_between_users(last.group, last.user, u)]
        IN /\ Body.total_owed_to_you - Body.total_you_owe = Body.your_net_balance
           /\ SumOver(peers, with) = calculate_member_balance(last.group, last.user)

\* The summary of a viewer who owes one member and is owed by another, in a
\* group with expenses of two payers that are split in full, a payment and a
\* settlement.
C30_Witness ==
    /\ Answered("balance_summary") /\ FullySplit(last.group) /\ ParticipantsActive(last.group)
    /\ Cardinality({e.paid_by : e \in {x \in BagToSet(expenses) : x.group = last.group}}) = 2
    /\ \E k \in BagToSet(payments) : k.group = last.group
    /\ \E k \in BagToSet(settlements) : k.group = last.group
    /\ Body.total_owed_to_you > 0 /\ Body.total_you_owe > 0
    /\ Body.your_net_balance # 0

\* ------------------------------------------- the requests of an admin

HTTP_204_NO_CONTENT == 204
HTTP_404_NOT_FOUND == 404

\* The body of the response of get_object for a group that is not there, of
\* update_balances to a user who is no admin, and of a destroy.
NotFound == [detail |-> "Not found."]
OnlyAdmins == [error |-> "Only admins can update group balances"]
NoContent == [none |-> TRUE]

\* GroupMember.objects.filter(user=user, group=group, role='admin').exists()
IsAdmin(M, g, user) == M[<<g, user>>].present /\ M[<<g, user>>].role = "admin"

\* update_balances that asks for a membership only, of whatever role.
UpdateBalancesOfAnyMember(actor, g) ==
    /\ IF g \notin groups
       THEN /\ last' = Returned("update_balances", g, actor, Response(NotFound, HTTP_404_NOT_FOUND))
            /\ UNCHANGED members
       ELSE IF ~members[<<g, actor>>].present
       THEN /\ last' = Returned("update_balances", g, actor,
                                Response(OnlyAdmins, HTTP_403_FORBIDDEN))
            /\ UNCHANGED members
       ELSE /\ members' = UpdateAllGroupBalances(members, expenses, payments, settlements, g)
            /\ last' = Returned("update_balances", g, actor,
                          Response([success |-> TRUE,
                                    updated_members |-> ByJoinedAt(members, g, ActiveMembers(members, g))],
                                   HTTP_200_OK))
    /\ UNCHANGED <<groups, expenses, payments, settlements, edits, workers, requests>>

\* POST update-balances of group g by actor: update_all_group_balances for an
\* admin of the group, and the user ids of the members it returns.
UpdateBalances(actor, g) ==
    /\ IF g \notin groups
       THEN /\ last' = Returned("update_balances", g, actor, Response(NotFound, HTTP_404_NOT_FOUND))
            /\ UNCHANGED members
       ELSE IF ~IsAdmin(members, g, actor)
       THEN /\ last' = Returned("update_balances", g, actor,
                                Response(OnlyAdmins, HTTP_403_FORBIDDEN))
            /\ UNCHANGED members
       ELSE /\ members' = UpdateAllGroupBalances(members, expenses, payments, settlements, g)
            /\ last' = Returned("update_balances", g, actor,
                          Response([success |-> TRUE,
                                    updated_members |-> ByJoinedAt(members, g, ActiveMembers(members, g))],
                                   HTTP_200_OK))
    /\ UNCHANGED <<groups, expenses, payments, settlements, edits, workers, requests>>

\* on_delete=SET_NULL of Payment.group and Settlement.group: the rows of
\* table B with group g, their group set to null.
SetNull(B, g) ==
    LET detached(r) == IF r.group = g THEN [r EXCEPT !.group = NoGroup] ELSE r
        rows == {detached(r) : r \in BagToSet(B)}
    IN [n \in rows |->
           LET from == {r \in BagToSet(B) : detached(r) = n}
           IN SumRows(from, B, [r \in from |-> 1])]

\* on_delete=CASCADE of Expense.group: the rows of table B but those of
\* group g.
Cascade(B, g) ==
    LET rows == {r \in BagToSet(B) : r.group # g}
    IN [r \in rows |-> CopiesIn(r, B)]

\* DELETE of group g by actor (DestroyModelMixin; get_queryset is all groups):
\* group.delete() deletes the memberships and the expenses of the group with
\* their splits, and sets the group of its payments and settlements to null.
DestroyGroup(actor, g) ==
    /\ IF g \notin groups
       THEN /\ last' = Returned("destroy_group", g, actor, Response(NotFound, HTTP_404_NOT_FOUND))
            /\ UNCHANGED <<groups, members, expenses, payments, settlements>>
       ELSE /\ groups' = groups \ {g}
            /\ members' = [k \in Groups \X Users |-> IF k[1] = g THEN NoMember ELSE members[k]]
            /\ expenses' = Cascade(expenses, g)
            /\ payments' = SetNull(payments, g)
            /\ settlements' = SetNull(settlements, g)
            /\ last' = Returned("destroy_group", g, actor, Response(NoContent, HTTP_204_NO_CONTENT))
    /\ UNCHANGED <<edits, workers, requests>>

NextAdmin ==
    \/ \E actor \in Users, g \in Groups : UpdateBalances(actor, g)
    \/ \E actor \in Users, g \in Groups : DestroyGroup(actor, g)

SpecAdmin == InitQuery /\ [][NextAdmin]_vars

\* The elements of a sequence.
Range(s) == {s[i] : i \in DOMAIN s}

\* C21: update_balances of an existing group answers Forbidden and changes
\* no membership unless the actor has a membership of role admin in the
\* group; for an admin it succeeds, after it the cached balance of every
\* active member of the group is the calculated one, and the list it returns
\* holds the user id of every active member of the group once and nothing
\* else.
C21_UpdateBalancesAdminOnly ==
    [][(last'.op = "update_balances" /\ last'.group \in groups) =>
          IF IsAdmin(members, last'.group, last'.user)
          THEN /\ last'.value.status = HTTP_200_OK
               /\ \A u \in ActiveMembers(members', last'.group) :
                     members'[<<last'.group, u>>].balance
                        = CalcBalance(expenses', payments', settlements', last'.group, u)
               /\ Range(last'.value.data.updated_members) = ActiveMembers(members', last'.group)
               /\ Len(last'.value.data.updated_members)
                     = Cardinality(ActiveMembers(members', last'.group))
          ELSE /\ last'.value.status = HTTP_403_FORBIDDEN
               /\ UNCHANGED <<members, expenses, payments, settlements>>]_vars

\* The admin has updated the balances of a group that had an active member
\* with a cached balance of 0 and another calculated balance, and a member
\* who is not active.
C21_Witness ==
    /\ last.op = "update_balances" /\ last.value.status = HTTP_200_OK
    /\ \E u \in ActiveMembers(members, last.group) :
          /\ members[<<last.group, u>>].balance # 0
          /\ members[<<last.group, u>>].role # "admin"
    /\ Len(last.value.data.updated_members) = 3

\* C25: deleting a group deletes none of the expenses, payments and
\* settlements that referenced it: each of them is in its table after the
\* deletion, with no group.
C25_DestroyKeepsEvents ==
    [][(last'.op = "destroy_group" /\ last'.value.status = HTTP_204_NO_CONTENT) =>
          /\ \A e \in BagToSet(expenses) :
                e.group = last'.group =>
                    CopiesIn([e EXCEPT !.group = NoGroup], expenses') >= CopiesIn(e, expenses)
          /\ BagCardinality(expenses') = BagCardinality(expenses)
          /\ \A k \in BagToSet(payments) :
                k.group = last'.group =>
                    CopiesIn([k EXCEPT !.group = NoGroup], payments') >= CopiesIn(k, payments)
          /\ BagCardinality(payments') = BagCardinality(payments)
          /\ \A k \in BagToSet(settlements) :
                k.group = last'.group =>
                    CopiesIn([k EXCEPT !.group = NoGroup], settlements') >= CopiesIn(k, settlements)
          /\ BagCardinality(settlements') = BagCardinality(settlements)]_vars

\* ------------------------------------------------ joining and leaving

HTTP_201_CREATED == 201
HTTP_400_BAD_REQUEST == 400
HTTP_500_INTERNAL_SERVER_ERROR == 500

\* Requests about groups and their members in one behaviour.
MaxRequests == 3

\* The ids of the Group rows in the order in which they are given.
GroupIds == <<"g1", "g2">>

\* The first group alone or both groups, with members as in Init and a ledger
\* of the same number of copies of every row of these groups, each cached
\* balance the calculated one.
InitMembers ==
    /\ \E n \in 1..Len(GroupIds) : groups = {GroupIds[i] : i \in 1..n}
    /\ \E n \in 0..MaxSame :
          /\ expenses = TableOf(ReadExpenses,
                                [e \in ReadExpenses |-> IF e.group \in groups THEN n ELSE 0])
          /\ payments = TableOf(ReadPayments,
                                [p \in ReadPayments |-> IF p.group \in groups THEN n ELSE 0])
          /\ settlements = TableOf(ReadSettlements,
                                   [t \in ReadSettlements |-> IF t.group \in groups THEN n ELSE 0])
    /\ members = InSetUpOrder([k \in Groups \X Users |->
                    LET balance == CalcBalance(expenses, payments, settlements, k[1], k[2])
                    IN CASE k[1] \notin groups -> NoMember
                         [] k = <<"g1", "A">> -> GroupMember("admin", "active", balance)
                         [] k = <<"g1", "B">> -> GroupMember("member", "active", balance)
                         [] k = <<"g1", "C">> -> GroupMember("member", "active", balance)
                         [] k = <<"g2", "A">> -> GroupMember("admin", "active", balance)
                         [] k = <<"g2", "B">> -> GroupMember("member", "pending", balance)
                         [] OTHER -> NoMember])
    /\ edits = 0
    /\ last = Did("init", NoGroup, "A", {})
    /\ workers = [w \in Workers |-> Idle]
    /\ requests = 0

\* What last keeps of a request of actor about user in group g: the response.
Answer(op, g, actor, user, response) ==
    [op |-> op, group |-> g, user |-> actor, others |-> {user}, value |-> response]

\* The bodies of the responses.
Message(text) == [message |-> text]
Error(text) == [error |-> text]

\* user.email: the users of setUp are user1@test.com, user2@test.com and
\* user3@test.com.
Email(u) == "user" \o ToString(SetUpPlace(u)) \o "@test.com"

\* GroupMemberSerializer of a row, without its id and joined_at.
GroupMemberData(u, row) ==
    [user |-> u, role |-> row.role, status |-> row.status, balance |-> row.balance]

\* initialize_member_balance that sets the balance to the calculated one, as
\* update_member_balance does.
InitializeMemberBalanceByCalculation(M, E, P, T, g, u) ==
    UpdateMemberBalance(M, E, P, T, g, u)

\* initialize_member_balance(group, user): a balance that is not 0 is set to
\* 0; a user with no row is skipped.
InitializeMemberBalance(M, E, P, T, g, u) ==
    IF M[<<g, u>>].present /\ M[<<g, u>>].balance # 0
    THEN [M EXCEPT ![<<g, u>>].balance = 0]
    ELSE M

\* Group.add_member(user, role) where the user has no row in the group:
\* GroupMember.objects.create(role=role, status='active') with the default
\* balance, then post_save with created=True: the receiver
\* initialize_member_balance acts on an active member, and
\* handle_member_status_change does nothing for a created row.
AddedMember(M, E, P, T, g, u, role) ==
    LET rows == {v \in Users : M[<<g, v>>].present}
        created == [M EXCEPT ![<<g, u>>] =
                       [GroupMember(role, "active", 0) EXCEPT !.joined = Cardinality(rows) + 1]]
    IN InitializeMemberBalance(created, E, P, T, g, u)

\* Group.add_member(user) in a request: the INSERT of a second row of the
\* user in the group breaks unique_together, and the request fails.
AddMemberTo(op, actor, g, user, body) ==
    IF members[<<g, user>>].present
    THEN /\ last' = Answer(op, g, actor, user,
                           Response(Error("IntegrityError"), HTTP_500_INTERNAL_SERVER_ERROR))
         /\ UNCHANGED members
    ELSE /\ members' = AddedMember(members, expenses, payments, settlements, g, user, "member")
         /\ last' = Answer(op, g, actor, user, Response(body, HTTP_200_OK))

\* POST to GroupViewSet.create by user: serializer.save inserts the Group row
\* with the next id, group.add_member(user, role='admin') makes the creator
\* its admin, and the response shows the group with its memberships.
CreateGroup(user) ==
    /\ requests < MaxRequests
    /\ Cardinality(groups) < Len(GroupIds)
    /\ LET g == GroupIds[Cardinality(groups) + 1]
           M == AddedMember(members, expenses, payments, settlements, g, user, "admin")
           rows == ByJoinedAt(M, g, {u \in Users : M[<<g, u>>].present})
       IN /\ groups' = groups \cup {g}
          /\ members' = M
          /\ last' = Answer("create", g, user, user,
                            Response([id |-> g,
                                      memberships |->
                                          [i \in DOMAIN rows |->
                                              GroupMemberData(rows[i], M[<<g, rows[i]>>])]],
                                     HTTP_201_CREATED))
    /\ UNCHANGED <<expenses, payments, settlements, edits, workers>>
    /\ requests' = requests + 1

\* POST add_member of group g by actor, for user.
AddMember(actor, g, user) ==
    /\ requests < MaxRequests
    /\ IF g \notin groups
       THEN /\ last' = Answer("add_member", g, actor, user, Response(NotFound, HTTP_404_NOT_FOUND))
            /\ UNCHANGED members
       ELSE IF ~IsAdmin(members, g, actor)
       THEN /\ last' = Answer("add_member", g, actor, user,
                              Response(Error("Only admins can add members"), HTTP_403_FORBIDDEN))
            /\ UNCHANGED members
       ELSE AddMemberTo("add_member", actor, g, user,
                        Message("Successfully added " \o Email(user) \o " to the group"))
    /\ UNCHANGED <<groups, expenses, payments, settlements, edits, workers>>
    /\ requests' = requests + 1

\* POST join of group g by user, with the join code of the group or another.
Join(user, g, code) ==
    /\ requests < MaxRequests
    /\ IF g \notin groups
       THEN /\ last' = Answer("join", g, user, user, Response(NotFound, HTTP_404_NOT_FOUND))
            /\ UNCHANGED members
       ELSE IF code # g
       THEN /\ last' = Answer("join", g, user, user,
                              Response(Error("Invalid join code"), HTTP_400_BAD_REQUEST))
            /\ UNCHANGED members
       ELSE IF members[<<g, user>>].present
       THEN /\ last' = Answer("join", g, user, user,
                              Response(Error("Already a member of this group"),
                                       HTTP_400_BAD_REQUEST))
            /\ UNCHANGED members
       ELSE AddMemberTo("join", user, g, user, Message("Successfully joined the group"))
    /\ UNCHANGED <<groups, expenses, payments, settlements, edits, workers>>
    /\ requests' = requests + 1

\* POST join_by_code by user with the join code of group g: only an active
\* membership counts as being a member already.
JoinByCode(user, g) ==
    /\ requests < MaxRequests
    /\ IF g \notin groups
       THEN /\ last' = Answer("join_by_code", g, user, user,
                              Response(Error("Invalid join code"), HTTP_400_BAD_REQUEST))
            /\ UNCHANGED members
       ELSE IF members[<<g, user>>].present /\ members[<<g, user>>].status = "active"
       THEN /\ last' = Answer("join_by_code", g, user, user,
                              Response(Error("Already a member of this group"),
                                       HTTP_400_BAD_REQUEST))
            /\ UNCHANGED members
       ELSE AddMemberTo("join_by_code", user, g, user,
                        [message |-> "Successfully joined the group", group |-> [id |-> g]])
    /\ UNCHANGED <<groups, expenses, payments, settlements, edits, workers>>
    /\ requests' = requests + 1

\* Group.remove_member(user): the DELETE of the row; no receiver listens to
\* post_delete of GroupMember.  The rows created after it move up one place.
RemovedMember(M, g, u) ==
    [k \in DOMAIN M |->
        IF k = <<g, u>> THEN NoMember
        ELSE IF k[1] = g /\ M[k].joined > M[<<g, u>>].joined
        THEN [M[k] EXCEPT !.joined = @ - 1]
        ELSE M[k]]

\* POST remove_member of group g by actor, for user.
RemoveMember(actor, g, user) ==
    /\ requests < MaxRequests
    /\ IF g \notin groups
       THEN /\ last' = Answer("remove_member", g, actor, user,
                              Response(NotFound, HTTP_404_NOT_FOUND))
            /\ UNCHANGED members
       ELSE IF ~IsAdmin(members, g, actor)
       THEN /\ last' = Answer("remove_member", g, actor, user,
                              Response(Error("Only admins can remove members"),
                                       HTTP_403_FORBIDDEN))
            /\ UNCHANGED members
       ELSE IF ~members[<<g, user>>].present
       THEN /\ last' = Answer("remove_member", g, actor, user,
                              Response(Error("User is not a member of this group"),
                                       HTTP_400_BAD_REQUEST))
            /\ UNCHANGED members
       ELSE /\ members' = RemovedMember(members, g, user)
            /\ last' = Answer("remove_member", g, actor, user,
                              Response(Message("Successfully removed " \o Email(user)
                                               \o " from the group"),
                                       HTTP_200_OK))
    /\ UNCHANGED <<groups, expenses, payments, settlements, edits, workers>>
    /\ requests' = requests + 1

\* POST leave_group of group g by user: the only active admin cannot leave.
LeaveGroup(user, g) ==
    /\ requests < MaxRequests
    /\ IF g \notin groups
       THEN /\ last' = Answer("leave_group", g, user, user, Response(NotFound, HTTP_404_NOT_FOUND))
            /\ UNCHANGED members
       ELSE IF ~members[<<g, user>>].present
       THEN /\ last' = Answer("leave_group", g, user, user,
                              Response(Error("You are not a member of this group"),
                                       HTTP_400_BAD_REQUEST))
            /\ UNCHANGED members
       ELSE LET admin_count == Cardinality({u \in ActiveMembers(members, g) :
                                               members[<<g, u>>].role = "admin"})
            IN IF members[<<g, user>>].role = "admin" /\ admin_count = 1
               THEN /\ last' = Answer("leave_group", g, user, user,
                                      Response(Error("Cannot leave group as the only admin. "
                                                     \o "Please assign another admin first."),
                                               HTTP_400_BAD_REQUEST))
                    /\ UNCHANGED members
               ELSE /\ members' = RemovedMember(members, g, user)
                    /\ last' = Answer("leave_group", g, user, user,
                                      Response(Message("Successfully left the group"),
                                               HTTP_200_OK))
    /\ UNCHANGED <<groups, expenses, payments, settlements, edits, workers>>
    /\ requests' = requests + 1

\* get_queryset of GroupMemberViewSet, for the row of user in group g: the
\* rows of the groups in which the actor has a row, of any role and status.
InQuerysetOf(M, actor, g, user) == M[<<g, actor>>].present /\ M[<<g, user>>].present

\* DELETE group-members/<pk> by actor, for the row of user in group g:
\* instance.delete(); no receiver listens to post_delete of GroupMember.
DestroyGroupMember(actor, g, user) ==
    /\ requests < MaxRequests
    /\ IF ~InQuerysetOf(members, actor, g, user)
       THEN /\ last' = Answer("destroy_member", g, actor, user,
                              Response(NotFound, HTTP_404_NOT_FOUND))
            /\ UNCHANGED members
       ELSE /\ members' = RemovedMember(members, g, user)
            /\ last' = Answer("destroy_member", g, actor, user,
                              Response(NoContent, HTTP_204_NO_CONTENT))
    /\ UNCHANGED <<groups, expenses, payments, settlements, edits, workers>>
    /\ requests' = requests + 1

\* The statuses and the balances a request writes to a GroupMember row.
MemberStatuses == {"active", "pending", "removed"}
MemberBalances == {0, 500}

\* handle_member_status_change after the save of an existing row of user in
\* group g: update_all_group_balances for a removed member,
\* update_member_balance for an active one.
HandleMemberStatusChange(M, E, P, T, g, user) ==
    IF M[<<g, user>>].status = "removed" THEN UpdateAllGroupBalances(M, E, P, T, g)
    ELSE IF M[<<g, user>>].status = "active" THEN UpdateMemberBalance(M, E, P, T, g, user)
    ELSE M

\* PUT or PATCH group-members/<pk> by actor, for the row of user in group g
\* (update and partial_update: every writable field has a default, so that
\* none is required): serializer.save() writes role, status and balance,
\* post_save runs handle_member_status_change, and the response shows the
\* instance that was saved.
UpdateGroupMember(actor, g, user, role, status, balance) ==
    /\ requests < MaxRequests
    /\ edits < MaxEdits
    /\ IF ~InQuerysetOf(members, actor, g, user)
       THEN /\ last' = Answer("update_member", g, actor, user,
                              Response(NotFound, HTTP_404_NOT_FOUND))
            /\ UNCHANGED members
       ELSE LET instance == [members[<<g, user>>] EXCEPT
                                !.role = role, !.status = status, !.balance = balance]
                M == [members EXCEPT ![<<g, user>>] = instance]
            IN /\ members' = HandleMemberStatusChange(M, expenses, payments, settlements,
                                                       g, user)
               /\ last' = Answer("update_member", g, actor, user,
                                 Response(GroupMemberData(user, instance), HTTP_200_OK))
    /\ edits' = edits + 1
    /\ UNCHANGED <<groups, expenses, payments, settlements, workers>>
    /\ requests' = requests + 1

NextMembers ==
    \/ \E user \in Users : CreateGroup(user)
    \/ \E actor \in Users, g \in Groups, user \in Users : AddMember(actor, g, user)
    \/ \E user \in Users, g \in Groups, code \in Groups : Join(user, g, code)
    \/ \E user \in Users, g \in Groups : JoinByCode(user, g)
    \/ \E actor \in Users, g \in Groups, user \in Users : RemoveMember(actor, g, user)
    \/ \E user \in Users, g \in Groups : LeaveGroup(user, g)
    \/ \E actor \in Users, g \in Groups, user \in Users : DestroyGroupMember(actor, g, user)
    \/ \E actor \in Users, g \in Groups, user \in Users, role \in {"admin", "member"},
          status \in MemberStatuses, balance \in MemberBalances :
          UpdateGroupMember(actor, g, user, role, status, balance)

SpecMembers == InitMembers /\ [][NextMembers]_vars

\* The requests that create a membership.
Creating == {"create", "add_member", "join", "join_by_code"}

\* The last step created the membership of user u in group g.
Created(g, u) ==
    /\ last.op \in Creating
    /\ last.value.status \in {HTTP_200_OK, HTTP_201_CREATED}
    /\ last.group = g
    /\ last.others = {u}

\* C27: a membership that was just created by create, add_member, join or
\* join_by_code is there, active, and has the cached balance 0.
C27_CreatedWithBalanceZero ==
    \A g \in Groups, u \in Users :
        Created(g, u) =>
            /\ members[<<g, u>>].present
            /\ members[<<g, u>>].status = "active"
            /\ members[<<g, u>>].balance = 0

\* A membership was just created for a user whose events in the group do not
\* add up to 0.
C27_Witness ==
    \E g \in Groups, u \in Users :
        /\ Created(g, u)
        /\ CalcBalance(expenses, payments, settlements, g, u) # 0

\* C29: a membership that was just created, also for a user who was a member
\* before and whom the events of the group reference, has the cached balance
\* that calculate_member_balance gives.
C29_ReaddedBalanceIsCalculated ==
    \A g \in Groups, u \in Users :
        Created(g, u) =>
            members[<<g, u>>].balance = CalcBalance(expenses, payments, settlements, g, u)

\* ------------------------------------------------ the forms of a transfer

MaxPaymentAmount == 99999999
Today == 0

\* The payment dates of the requests, in days from today, payment_date
\* being optional and <<>> a form without it; the amounts and the groups of
\* the requests.
NoDate == <<>>
FormDates == {NoDate, <<Today>>, <<Today + 1>>}
FormAmounts == {0 - 500, 0, 1000, MaxPaymentAmount}
FormGroups == Groups \cup {NoGroup}

\* The body of a validation error on a field, and of a server error.
Invalid(field) == [invalid |-> field]
Valid == Invalid("")
ServerError == [detail |-> "Server Error (500)"]

\* What last keeps of a form: the sender, the receiver, the amount, the date
\* and the response.
Posted(op, f, t, g, a, d, response) ==
    [op |-> op, group |-> g, user |-> f, others |-> {t},
     value |-> [amount |-> a, date |-> d, response |-> response]]

\* The group of the form is a Group row and the user has a row in it.
HasRow(G, M, g, u) == g \in G /\ M[<<g, u>>].present

\* value > 999999.99 in validate_amount, for a value of a cents: the Decimal
\* is compared with the float 999999.99, which is 999999.98999999999068...,
\* less than MaxPaymentAmount cents and more than one cent less.
ExceedsMaxPaymentAmount(a) == a >= MaxPaymentAmount

\* PaymentSerializer.validate that lets a user pay themselves.
ValidatePaymentToAnyone(G, M, f, t, g, a, d) ==
    IF a <= 0 \/ ExceedsMaxPaymentAmount(a) THEN Invalid("amount")
    ELSE IF g # NoGroup /\ ~HasRow(G, M, g, f) THEN Invalid("group")
    ELSE IF g # NoGroup /\ ~HasRow(G, M, g, t) THEN Invalid("to_user")
    ELSE IF d # NoDate /\ d[1] > Today THEN Invalid("payment_date")
    ELSE Valid

\* PaymentSerializer: validate_amount, then validate: the rows of both users
\* in the group if there is one, different users, a date not after today.
ValidatePayment(G, M, f, t, g, a, d) ==
    IF a <= 0 \/ ExceedsMaxPaymentAmount(a) THEN Invalid("amount")
    ELSE IF g # NoGroup /\ ~HasRow(G, M, g, f) THEN Invalid("group")
    ELSE IF g # NoGroup /\ ~HasRow(G, M, g, t) THEN Invalid("to_user")
    ELSE IF f = t THEN Invalid("to_user")
    ELSE IF d # NoDate /\ d[1] > Today THEN Invalid("payment_date")
    ELSE Valid

\* SettlementSerializer.validate that lets a user settle with themselves.
ValidateSettlementWithAnyone(G, M, f, t, g) ==
    IF g # NoGroup /\ ~HasRow(G, M, g, f) THEN Invalid("non_field_errors")
    ELSE IF g # NoGroup /\ ~HasRow(G, M, g, t) THEN Invalid("non_field_errors")
    ELSE Valid

\* SettlementSerializer.validate: the rows of both users in the group if
\* there is one, different users.
ValidateSettlement(G, M, f, t, g) ==
    IF g # NoGroup /\ ~HasRow(G, M, g, f) THEN Invalid("non_field_errors")
    ELSE IF g # NoGroup /\ ~HasRow(G, M, g, t) THEN Invalid("non_field_errors")
    ELSE IF f = t THEN Invalid("non_field_errors")
    ELSE Valid

\* POST to PaymentListCreateView: is_valid, then PaymentSerializer.create:
\* Payment.objects.create and its post_save, then the response from
\* serializer.data.  A payment created without payment_date holds the default
\* timezone.now(), a datetime, which the DateField of the serializer refuses
\* to represent: the request fails after the row and the balances are
\* written.
PostPayment(f, t, g, a, d) ==
    /\ EventCount(expenses, payments, settlements) < MaxEvents
    /\ LET errors == ValidatePayment(groups, members, f, t, g, a, d)
       IN IF errors # Valid
          THEN /\ last' = Posted("post_payment", f, t, g, a, d,
                                 Response(errors, HTTP_400_BAD_REQUEST))
               /\ UNCHANGED <<members, payments>>
          ELSE LET k == Payment(f, t, g, a)
                   P == Insert(payments, k)
               IN /\ payments' = P
                  /\ members' = ProcessTransferBalanceUpdate(members, expenses, P,
                                                             settlements, k)
                  /\ last' = Posted("post_payment", f, t, g, a, d,
                                    IF d = NoDate
                                    THEN Response(ServerError, HTTP_500_INTERNAL_SERVER_ERROR)
                                    ELSE Response(Valid, HTTP_201_CREATED))
    /\ UNCHANGED <<groups, expenses, settlements, edits, workers, requests>>

\* POST to SettlementListCreateView: is_valid, then
\* SettlementSerializer.create: Settlement.objects.create, whose save raises
\* ValueError for an amount that is not positive, and its post_save.
PostSettlement(f, t, g, a) ==
    /\ EventCount(expenses, payments, settlements) < MaxEvents
    /\ LET errors == ValidateSettlement(groups, members, f, t, g)
       IN IF errors # Valid
          THEN /\ last' = Posted("post_settlement", f, t, g, a, NoDate,
                                 Response(errors, HTTP_400_BAD_REQUEST))
               /\ UNCHANGED <<members, settlements>>
          ELSE IF a <= 0
          THEN /\ last' = Posted("post_settlement", f, t, g, a, NoDate,
                                 Response(ServerError, HTTP_500_INTERNAL_SERVER_ERROR))
               /\ UNCHANGED <<members, settlements>>
          ELSE LET k == Settlement(f, t, g, a)
                   T == Insert(settlements, k)
               IN /\ settlements' = T
                  /\ members' = ProcessTransferBalanceUpdate(members, expenses, payments,
                                                             T, k)
                  /\ last' = Posted("post_settlement", f, t, g, a, NoDate,
                                    Response(Valid, HTTP_201_CREATED))
    /\ UNCHANGED <<groups, expenses, payments, edits, workers, requests>>

NextForms ==
    \/ \E f \in Users, t \in Users, g \in FormGroups, a \in FormAmounts, d \in FormDates :
          PostPayment(f, t, g, a, d)
    \/ \E f \in Users, t \in Users, g \in FormGroups, a \in FormAmounts :
          PostSettlement(f, t, g, a)

SpecForms == Init /\ [][NextForms]_vars

\* The form that was just posted names the same user as sender and receiver,
\* or is a payment of an amount that is not positive or of a date after today.
BadForm ==
    /\ last.op \in {"post_payment", "post_settlement"}
    /\ \/ last.others = {last.user}
       \/ /\ last.op = "post_payment"
          /\ \/ last.value.amount <= 0
             \/ last.value.date # NoDate /\ last.value.date[1] > Today

\* C23: a payment or settlement form from a user to themselves, and a payment
\* form with an amount that is not positive or a date after today, is answered
\* with a validation error, and the step creates no event and changes no
\* cached balance.
C23_BadFormsRejected ==
    [][BadForm' =>
          /\ last'.value.response.status = HTTP_400_BAD_REQUEST
          /\ last'.value.response.data # Valid
          /\ UNCHANGED <<groups, members, expenses, payments, settlements>>]_vars

\* A payment form that is wrong only in that the sender, a member of g1 with
\* events already in the group, pays themselves was refused.
C23_Witness ==
    /\ last.op = "post_payment"
    /\ last.group = "g1"
    /\ last.others = {last.user}
    /\ last.value.amount > 0
    /\ last.value.date = <<Today>>
    /\ last.value.response.status = HTTP_400_BAD_REQUEST
    /\ EventCount(expenses, payments, settlements) > 0

\* ------------------------------------------------ one request after another

\* No other worker than w is inside a request: the requests are served one
\* at a time.
Alone(w) == \A q \in Workers \ {w} : workers[q].pc \in {"idle", "done", "failed"}

\* The requests of NextConc, each begun when no other is being served, and
\* the statements of their handlers.
NextChain ==
    \/ \E w \in Workers, p \in Users, a \in ExpenseAmounts :
          Alone(w) /\ RequestExpense(w, "g1", p, a)
    \/ \E w \in Workers, ft \in TransferPairs, a \in PaymentAmounts :
          Alone(w) /\ RequestPayment(w, ft[1], ft[2], "g1", a)
    \/ \E w \in Workers : GetMember(w)
    \/ \E w \in Workers : CalculateMember(w)
    \/ \E w \in Workers : WriteMember(w)
    \/ \E w \in Workers : CommitHandler(w)
    \/ \E w \in Workers : RaiseInHandler(w)

\* A handler runs in the thread of its request: its next statement is
\* executed once it can be.
Runs(w) ==
    /\ WF_vars(GetMember(w))
    /\ WF_vars(CalculateMember(w))
    /\ WF_vars(WriteMember(w))
    /\ WF_vars(CommitHandler(w))

SpecChain == Init /\ [][NextChain]_vars /\ \A w \in Workers : Runs(w)

\* Worker w is inside the handler of its event.
InHandler(w) == workers[w].pc \in {"get", "compare"} \cup StatementsOfCalculate

\* C26: the write of a recomputed balance ends the update_member_balance call
\* of its user and queues no other (the user leaves the list of users to
\* update, which never grows inside a handler), so the handler of every event
\* makes at most as many update_member_balance calls as it began with, and it
\* ends: it returns or raises.
C26_HandlerChainTerminates ==
    /\ [][\A w \in Workers :
             /\ workers[w].pc = "compare" /\ workers'[w].pc = "get"
                   => workers'[w].todo = Tail(workers[w].todo)
             /\ InHandler(w) => Len(workers'[w].todo) <= Len(workers[w].todo)]_vars
    /\ \A w \in Workers : InHandler(w) ~> workers[w].pc \in {"done", "failed"}

\* The handler of a payment has returned after it wrote the balances of both
\* users, which the payment changed.
C26_Witness ==
    \E w \in Workers :
        /\ workers[w].pc = "done"
        /\ workers[w].kind = "payment"
        /\ \A u \in {workers[w].row.from_user, workers[w].row.to_user} :
              /\ members[<<"g1", u>>].balance # 0
              /\ members[<<"g1", u>>].balance = calculate_member_balance("g1", u)

====
